---------------------------- MODULE Spec2Model ----------------------------
(***************************************************************************)
(* Model of the signal-generation core of the n8n forex pipeline:          *)
(*   - the Confluence_Stateless node (the Aggregator),                     *)
(*     src/node_code/node_code/06_Confluence_Stateless.js lines 21-229;    *)
(*   - the gate chains of the six scorer nodes, at the level of the        *)
(*     indicator values they compute from the candle bundle.               *)
(*                                                                         *)
(* Numbers.  Prices and pip sizes are integers in units of 0.0001 (so the  *)
(* pip size 0.0001 is 1 and 0.01 is 100); confidences are integers in      *)
(* hundredths; the normalised 4h ATR is an integer percentage.  The        *)
(* Aggregator's average confidence is kept as an exact fraction.  Rounding *)
(* of IEEE doubles is outside the model.                                   *)
(***************************************************************************)
EXTENDS Integers, Sequences, FiniteSets, TLC

VARIABLES
    allItems,     \* $input.all(): the signals handed to the Confluence node
    grouped,      \* the `grouped` object, as its entries in insertion order
    idx,          \* how many entries of `grouped` the per-symbol loop has done
    results,      \* the `results` array
    selected,     \* per symbol done: filteredArr as sorted at line 161, and fault
    pc,           \* "start" | "loop" | "done": position in the node's code
    focus,        \* the symbol whose record two runs are compared on
    firstRun,     \* what the batch run returned for the focus symbol
    cycle,        \* 1: the batch run, 2: the run on the focus symbol alone
    market,       \* the part of the CandleBundle / PivotSet every scorer shares
    scorer,       \* the scorer node that ran last ("none" before any)
    inp,          \* the indicator values that scorer computed
    out           \* the signal it returned

aggVars == <<allItems, grouped, idx, results, selected, pc>>
isoVars == <<focus, firstRun, cycle>>
scoreVars == <<market, scorer, inp, out>>
vars == <<allItems, grouped, idx, results, selected, pc, focus, firstRun, cycle,
          market, scorer, inp, out>>

(***************************************************************************)
(* JavaScript values.  A value is a tagged tuple, so that undefined, null, *)
(* numbers, booleans, strings and objects can sit in the same field.       *)
(***************************************************************************)
Undefined == <<"undefined">>
Null == <<"null">>
Num(n) == <<"num", n>>
Bool(b) == <<"bool", b>>
Str(s) == <<"str", s>>
Obj(r) == <<"obj", r>>
NaN == <<"nan">>

Tag(v) == v[1]

\* JavaScript truthiness: what `!v`, `v && ...`, `v || ...` test.
Truthy(v) ==
    CASE Tag(v) = "undefined" -> FALSE
      [] Tag(v) = "null" -> FALSE
      [] Tag(v) = "num" -> v[2] # 0
      [] Tag(v) = "bool" -> v[2]
      [] Tag(v) = "str" -> v[2] # ""
      [] Tag(v) = "obj" -> TRUE
      [] Tag(v) = "nan" -> FALSE

\* `v === null || v === undefined`
IsNullish(v) == Tag(v) \in {"undefined", "null"}

\* `v || null`
OrNull(v) == IF Truthy(v) THEN v ELSE Null

\* The empty object literal {} read through the one property the node reads.
EmptyMeta == Obj([pip_size |-> Undefined])

\* `bestSignal.meta || {}`
OrEmptyMeta(v) == IF Truthy(v) THEN v ELSE EmptyMeta

\* String.prototype.includes on a string kept as its sequence of characters.
Includes(s, sub) ==
    \E i \in 1..(Len(s) - Len(sub) + 1) : SubSeq(s, i, i + Len(sub) - 1) = sub

JPY == <<"J", "P", "Y">>
XAU == <<"X", "A", "U">>

(***************************************************************************)
(* Configuration of the Confluence node.                                   *)
(***************************************************************************)
regimeVolatilityThreshold == 70
TECHNICAL_SCORERS == {"momentum", "reversion", "breakout"}
DYNAMIC_SCORERS == {"vwap_bias", "liquidity", "market_structure"}
PipDefaultJPY == 100
PipDefaultOther == 1
ConfidenceOne == 100


(***************************************************************************)
(* The Confluence node, lines 30-37: group the items by symbol.  An item   *)
(* whose symbol is missing or empty (!d.symbol) is skipped.  Object keys   *)
(* keep their insertion order.                                             *)
(***************************************************************************)
SymbolTruthy(sym) == Len(sym) > 0

\* Faulty variants of PushGrouped: one opens a new entry for every item, the
\* other appends an item of a known symbol to every entry.
PushGrouped_NoMerge(g, d) == Append(g, [symbol |-> d.symbol, arr |-> <<d>>])

PushGrouped_Shared(g, d) ==
    IF \E k \in 1..Len(g) : g[k].symbol = d.symbol
    THEN [k \in 1..Len(g) |-> [g[k] EXCEPT !.arr = Append(@, d)]]
    ELSE Append(g, [symbol |-> d.symbol, arr |-> <<d>>])

PushGrouped(g, d) ==
    IF \E k \in 1..Len(g) : g[k].symbol = d.symbol
    THEN [k \in 1..Len(g) |->
            IF g[k].symbol = d.symbol
            THEN [g[k] EXCEPT !.arr = Append(@, d)]
            ELSE g[k]]
    ELSE Append(g, [symbol |-> d.symbol, arr |-> <<d>>])

RECURSIVE GroupLoop(_, _)
GroupLoop(items, g) ==
    IF items = <<>> THEN g
    ELSE IF ~SymbolTruthy(Head(items).symbol) THEN GroupLoop(Tail(items), g)
    ELSE GroupLoop(Tail(items), PushGrouped(g, Head(items)))

GroupItems(items) == GroupLoop(items, <<>>)

(***************************************************************************)
(* Lines 46-64: the Regime Router's data check.                            *)
(***************************************************************************)
\* The predicate of arr.find at line 47.
HasRsi4h(s) ==
    /\ Truthy(s.indicators)
    /\ s.indicators[2].rsi_4h # Undefined

\* arr.find(...): the index of the first match, 0 when there is none.
FirstValidIndex(arr) ==
    IF \E i \in 1..Len(arr) : HasRsi4h(arr[i])
    THEN CHOOSE i \in 1..Len(arr) :
            /\ HasRsi4h(arr[i])
            /\ \A j \in 1..(i - 1) : ~HasRsi4h(arr[j])
    ELSE 0

\* The test of lines 58-60 on the indicators of firstValidSignal.
MissingRegimeData(ind) ==
    \/ IsNullish(ind.rsi_4h)
    \/ IsNullish(ind.daily_price_above_ema_200)
    \/ IsNullish(ind.atr_4h_norm)

\* Lines 66-69 with only the test for true.
HtfTrend_TrueOnly(ind) ==
    IF ind.daily_price_above_ema_200 = Bool(TRUE) THEN "Up" ELSE "Neutral"

\* Lines 66-69.
HtfTrend(ind) ==
    IF ind.daily_price_above_ema_200 = Bool(TRUE) THEN "Up"
    ELSE IF ind.daily_price_above_ema_200 = Bool(FALSE) THEN "Down"
    ELSE "Neutral"

\* Line 72.  A non-number compares false with the threshold.
Volatility(ind) ==
    IF Tag(ind.atr_4h_norm) = "num" /\ ind.atr_4h_norm[2] > regimeVolatilityThreshold
    THEN "High" ELSE "Low"

(***************************************************************************)
(* Lines 82-144: the confluence rule table.                                *)
(***************************************************************************)
Filter(arr, dir) == SelectSeq(arr, LAMBDA s : s.signal = dir)

TypeIn(s, types) == Tag(s.signalType) = "str" /\ s.signalType[2] \in types

Some(arr, types) == \E i \in 1..Len(arr) : TypeIn(arr[i], types)

\* Faulty variant of OnlyReversion: keeps every signal of the direction.
OnlyReversion_KeepAll(arr) == arr

OnlyReversion(arr) == SelectSeq(arr, LAMBDA s : TypeIn(s, {"reversion"}))

\* reasons.join(' + ') for the two optional entries of `reasons`.
JoinReasons(a, nameA, b, nameB) ==
    IF a /\ b THEN nameA \o " + " \o nameB
    ELSE IF a THEN nameA
    ELSE IF b THEN nameB
    ELSE ""

\* Lines 99-112 (along = "buy", against = "sell") and 113-126 (mirrored).
TrendRule(arr, along, against, ALONG, AGAINST, none) ==
    LET withSignals == Filter(arr, along)
        againstSignals == Filter(arr, against)
        tech == Some(withSignals, TECHNICAL_SCORERS)
        dynamic == Some(withSignals, DYNAMIC_SCORERS)
        reversion == Some(againstSignals, {"reversion"})
    IN  IF tech \/ dynamic
        THEN [filteredArr |-> withSignals,
              confluenceReason |-> "Signal: " \o JoinReasons(tech, "Technical", dynamic, "Dynamic")
                                   \o " " \o ALONG \o " (With Trend)"]
        ELSE IF reversion
        THEN [filteredArr |-> OnlyReversion(againstSignals),
              confluenceReason |-> "Signal: Reversion " \o AGAINST \o " (Counter-Trend)"]
        ELSE [filteredArr |-> <<>>, confluenceReason |-> none]

\* Lines 127-144.
RangeRule(arr) ==
    LET buySignals == Filter(arr, "buy")
        sellSignals == Filter(arr, "sell")
        reversion_buys == Some(buySignals, {"reversion"})
        dynamic_buys == Some(buySignals, DYNAMIC_SCORERS)
        reversion_sells == Some(sellSignals, {"reversion"})
        dynamic_sells == Some(sellSignals, DYNAMIC_SCORERS)
    IN  IF reversion_buys \/ dynamic_buys
        THEN [filteredArr |-> buySignals,
              confluenceReason |-> "Signal: " \o JoinReasons(reversion_buys, "Reversion", dynamic_buys, "Dynamic")
                                   \o " BUYS (Range)"]
        ELSE IF reversion_sells \/ dynamic_sells
        THEN [filteredArr |-> sellSignals,
              confluenceReason |-> "Signal: " \o JoinReasons(reversion_sells, "Reversion", dynamic_sells, "Dynamic")
                                   \o " SELLS (Range)"]
        ELSE [filteredArr |-> <<>>,
              confluenceReason |-> "Range. No Reversion or Dynamic signals."]

Confluence(arr, htf_trend) ==
    IF htf_trend = "Up"
    THEN TrendRule(arr, "buy", "sell", "BUYS", "SELLS", "No Buy Signals or Reversion Sells Found")
    ELSE IF htf_trend = "Down"
    THEN TrendRule(arr, "sell", "buy", "SELLS", "BUYS", "No Sell Signals or Reversion Buys Found")
    ELSE RangeRule(arr)

(***************************************************************************)
(* Lines 155-163: the average confidence and the best signal.              *)
(***************************************************************************)
RECURSIVE SumConfidence(_)
\* filteredArr.reduce((a, b) => a + (b.confidence || 0), 0)
SumConfidence(arr) ==
    IF arr = <<>> THEN 0 ELSE Head(arr).confidence + SumConfidence(Tail(arr))

Max(a, b) == IF a >= b THEN a ELSE b

\* Line 158: Math.min(1, sum / Math.max(1, length)), as the fraction num/den
\* of hundredths.  Only the upper end is capped.
AvgConfidence(arr) ==
    LET sum == SumConfidence(arr)
        n == Max(1, Len(arr))
    IN  IF sum >= ConfidenceOne * n THEN <<"rat", ConfidenceOne, 1>>
        ELSE <<"rat", sum, n>>

\* Faulty variant of InsertByConfidence: x goes ahead of the elements whose
\* confidence equals its own.
InsertByConfidence_Unstable(sorted, x) ==
    LET k == Cardinality({i \in 1..Len(sorted) : sorted[i].confidence > x.confidence})
    IN  SubSeq(sorted, 1, k) \o <<x>> \o SubSeq(sorted, k + 1, Len(sorted))

\* One step of the stable sort of line 161: x goes behind every element whose
\* confidence is at least its own (the comparator is b.confidence - a.confidence).
InsertByConfidence(sorted, x) ==
    LET k == Cardinality({i \in 1..Len(sorted) : sorted[i].confidence >= x.confidence})
    IN  SubSeq(sorted, 1, k) \o <<x>> \o SubSeq(sorted, k + 1, Len(sorted))

RECURSIVE SortLoop(_, _)
SortLoop(arr, acc) ==
    IF arr = <<>> THEN acc
    ELSE SortLoop(Tail(arr), InsertByConfidence(acc, Head(arr)))

\* filteredArr.sort((a, b) => b.confidence - a.confidence)
SortByConfidence(arr) == SortLoop(arr, <<>>)

(***************************************************************************)
(* Lines 165-194: pip size and the stop-loss / take-profit prices.         *)
(***************************************************************************)
\* Lines 173-178.  `meta` is an object here (line 166).
PipSize(symbol, meta) ==
    IF Truthy(meta[2].pip_size) THEN meta[2].pip_size[2]
    ELSE IF ~Includes(symbol, JPY) /\ ~Includes(symbol, XAU) THEN PipDefaultOther
    ELSE PipDefaultJPY

\* Lines 180-187.
SlPrice(signal, price, slPips, pipSize) ==
    IF signal = "buy" /\ Truthy(price) /\ Truthy(slPips)
    THEN Num(price[2] - slPips[2] * pipSize)
    ELSE IF signal = "sell" /\ Truthy(price) /\ Truthy(slPips)
    THEN Num(price[2] + slPips[2] * pipSize)
    ELSE Null

\* Lines 189-193.
TpPrice(signal, price, tpPips, pipSize) ==
    IF signal = "buy" /\ Truthy(price) /\ Truthy(tpPips)
    THEN Num(price[2] + tpPips[2] * pipSize)
    ELSE IF signal = "sell" /\ Truthy(price) /\ Truthy(tpPips)
    THEN Num(price[2] - tpPips[2] * pipSize)
    ELSE Null

(***************************************************************************)
(* The records the node pushes.  A property the object literal does not    *)
(* have reads as Undefined.                                                *)
(***************************************************************************)
\* The flat records of lines 50, 62, 78, 150 and 223.
FlatRecord(symbol, reason, regime) ==
    [symbol |-> symbol, signal |-> "flat", reason |-> reason, regime |-> regime,
     price |-> Undefined, confidence |-> Undefined, strategyType |-> Undefined,
     recommendedSLPips |-> Undefined, recommendedTPPips |-> Undefined,
     sl_price |-> Undefined, tp_price |-> Undefined,
     indicators |-> Undefined, meta |-> Undefined]

\* Lines 162-216: rawSignal, from filteredArr after the sort.
RawSignal(symbol, sorted, avgConfidence, confluenceReason, htf_trend) ==
    LET bestSignal == sorted[1]
        meta == OrEmptyMeta(bestSignal.meta)
        signal == bestSignal.signal
        price == bestSignal.price
        slPips == OrNull(bestSignal.recommendedSLPips)
        tpPips == OrNull(bestSignal.recommendedTPPips)
        pipSize == PipSize(symbol, meta)
    IN  [symbol |-> symbol, signal |-> signal, reason |-> confluenceReason,
         regime |-> Str(htf_trend),
         price |-> price, confidence |-> avgConfidence,
         strategyType |-> bestSignal.signalType,
         recommendedSLPips |-> slPips, recommendedTPPips |-> tpPips,
         sl_price |-> SlPrice(signal, price, slPips, pipSize),
         tp_price |-> TpPrice(signal, price, tpPips, pipSize),
         indicators |-> bestSignal.indicators, meta |-> meta]

\* Lines 82-219 for one symbol, past the data check and the chop veto.
Decide(symbol, arr, htf_trend) ==
    LET c == Confluence(arr, htf_trend)
        sorted == SortByConfidence(c.filteredArr)
    IN  IF Len(c.filteredArr) = 0
        THEN [rec |-> FlatRecord(symbol,
                        "Regime: " \o htf_trend \o ". " \o c.confluenceReason \o ".",
                        Str(htf_trend)),
              sel |-> <<>>]
        ELSE [rec |-> RawSignal(symbol, sorted, AvgConfidence(c.filteredArr),
                                c.confluenceReason, htf_trend),
              sel |-> sorted]

\* The body of the try block, lines 42-219, for one entry of `grouped`.
ProcessSymbol(symbol, arr) ==
    LET fv == FirstValidIndex(arr)
        ind == arr[fv].indicators[2]
        htf_trend == HtfTrend(ind)
    IN  IF fv = 0
        THEN [rec |-> FlatRecord(symbol, "VETO: No valid indicator data from any scorer.", Undefined),
              sel |-> <<>>]
        ELSE IF MissingRegimeData(ind)
        THEN [rec |-> FlatRecord(symbol,
                        "VETO: Regime Router: Missing required indicator data (RSI, Daily EMA, ATR).",
                        Undefined),
              sel |-> <<>>]
        ELSE IF htf_trend = "Neutral" /\ Volatility(ind) = "High"
        THEN [rec |-> FlatRecord(symbol, "Regime: Veto. Volatile CHOP.", Str(htf_trend)),
              sel |-> <<>>]
        ELSE Decide(symbol, arr, htf_trend)

\* The catch block, lines 221-225.
ErrorRecord(symbol, message) ==
    FlatRecord(symbol, "VETO: Node error: " \o message, Undefined)

(***************************************************************************)
(* The signals the Confluence node receives: the objects the scorer nodes  *)
(* return, read through the properties the Confluence node reads.          *)
(***************************************************************************)
Indicators(rsi_4h, daily, atr_4h_norm) ==
    Obj([rsi_4h |-> rsi_4h, daily_price_above_ema_200 |-> daily,
         atr_4h_norm |-> atr_4h_norm])

Meta(pip_size) == Obj([pip_size |-> pip_size])

\* Every early return of Scorer (trend), Scorer_Breakout and
\* Scorer_Mean_Reversion: { symbol, signal: 'flat', confidence: 0, reason, ... }.
PlainFlat(symbol) ==
    [symbol |-> symbol, signal |-> "flat", confidence |-> 0,
     signalType |-> Undefined, price |-> Undefined,
     recommendedSLPips |-> Undefined, recommendedTPPips |-> Undefined,
     indicators |-> Undefined, meta |-> Undefined]

\* The final return of Scorer (trend): rsi_4h is in the snapshot, the daily
\* flag and the normalised ATR are not.
TrendTrade(symbol, signal, signalType, confidence, price, slPips, tpPips, rsi_4h, meta) ==
    [symbol |-> symbol, signal |-> signal, confidence |-> confidence,
     signalType |-> Str(signalType), price |-> Num(price),
     recommendedSLPips |-> Num(slPips), recommendedTPPips |-> Num(tpPips),
     indicators |-> Indicators(Num(rsi_4h), Undefined, Undefined), meta |-> meta]

\* The final return of Scorer_Mean_Reversion: a recommendedTPPrice and no
\* recommendedTPPips, and a snapshot without rsi_4h.
MeanReversionTrade(symbol, signal, confidence, price, slPips, meta) ==
    [symbol |-> symbol, signal |-> signal, confidence |-> confidence,
     signalType |-> Str("reversion"), price |-> Num(price),
     recommendedSLPips |-> Num(slPips), recommendedTPPips |-> Undefined,
     indicators |-> Indicators(Undefined, Undefined, Undefined), meta |-> meta]

\* normalizeOutput on the final object of Scorer_Liquidity: a full snapshot;
\* the pips are null on flat.
LiquidityFinal(symbol, signal, confidence, price, slPips, tpPips, rsi_4h, daily, atr_4h_norm, meta) ==
    [symbol |-> symbol, signal |-> signal, confidence |-> confidence,
     signalType |-> Str("liquidity"), price |-> Num(price),
     recommendedSLPips |-> IF signal # "flat" THEN Num(slPips) ELSE Null,
     recommendedTPPips |-> IF signal # "flat" THEN Num(tpPips) ELSE Null,
     indicators |-> Indicators(Num(rsi_4h), Bool(daily), atr_4h_norm), meta |-> meta]

\* normalizeOutput on the final object of Scorer_Structure: rsi_1h in place
\* of rsi_4h.
StructureFinal(symbol, signal, confidence, price, slPips, tpPips, daily, atr_4h_norm, meta) ==
    [symbol |-> symbol, signal |-> signal, confidence |-> confidence,
     signalType |-> Str("market_structure"), price |-> Num(price),
     recommendedSLPips |-> IF signal # "flat" THEN Num(slPips) ELSE Null,
     recommendedTPPips |-> IF signal # "flat" THEN Num(tpPips) ELSE Null,
     indicators |-> Indicators(Undefined, Bool(daily), atr_4h_norm), meta |-> meta]

\* Any other item of $input.all().
Item(symbol, signal, signalType, confidence, price, slPips, tpPips, indicators, meta) ==
    [symbol |-> symbol, signal |-> signal, confidence |-> confidence,
     signalType |-> signalType, price |-> price,
     recommendedSLPips |-> slPips, recommendedTPPips |-> tpPips,
     indicators |-> indicators, meta |-> meta]

EURUSD == <<"E", "U", "R", "/", "U", "S", "D">>
USDJPY == <<"U", "S", "D", "/", "J", "P", "Y">>
XAUUSD == <<"X", "A", "U", "/", "U", "S", "D">>
NoSymbol == <<>>
Symbols == {EURUSD, USDJPY, XAUUSD}

MaxItems == 3

PoolEUR ==
    { PlainFlat(EURUSD),
      LiquidityFinal(EURUSD, "flat", 0, 10990, 0, 0, 55, TRUE, Num(50), Meta(Num(1))),
      LiquidityFinal(EURUSD, "flat", 0, 10991, 0, 0, 45, FALSE, Num(50), Meta(Num(1))),
      LiquidityFinal(EURUSD, "buy", 60, 11000, 30, 75, 55, TRUE, Num(80), Meta(Num(1))),
      LiquidityFinal(EURUSD, "sell", 60, 11001, 31, 76, 45, FALSE, Num(80), Meta(Num(1))),
      TrendTrade(EURUSD, "buy", "momentum", 90, 11010, 20, 30, 61, Meta(Num(1))),
      TrendTrade(EURUSD, "buy", "shallow_pullback", 60, 11011, 21, 32, 55, Meta(Num(1))),
      MeanReversionTrade(EURUSD, "buy", 70, 11020, 23, Meta(Num(1))),
      MeanReversionTrade(EURUSD, "sell", 100, 11021, 24, Meta(Num(1))),
      StructureFinal(EURUSD, "sell", 65, 11030, 40, 60, TRUE, Num(50), Meta(Num(1))),
      Item(EURUSD, "flat", Undefined, 0, Undefined, Undefined, Undefined,
           Indicators(Num(50), Str("unknown"), Num(50)), Undefined),
      Item(EURUSD, "flat", Undefined, 0, Undefined, Undefined, Undefined,
           Indicators(Num(50), Str("unknown"), Num(90)), Undefined),
      Item(EURUSD, "buy", Str("momentum"), -40, Num(11040), Num(25), Num(50),
           Undefined, Undefined) }

PoolOther ==
    { LiquidityFinal(USDJPY, "buy", 60, 1500000, 15, 40, 55, TRUE, Num(50), Meta(Num(100))),
      Item(USDJPY, "sell", Str("breakout"), 120, Num(1500100), Num(16), Num(41),
           Indicators(Num(45), Bool(FALSE), Num(50)), Undefined),
      Item(XAUUSD, "buy", Str("vwap_bias"), 65, Num(20000000), Num(17), Num(42),
           Indicators(Num(55), Bool(TRUE), Num(50)), Meta(Num(0))),
      PlainFlat(NoSymbol) }

Pool == PoolEUR \cup PoolOther

Inputs == UNION {[1..n -> Pool] : n \in 1..MaxItems}

(***************************************************************************)
(* The Confluence node as a state machine.                                 *)
(***************************************************************************)
NoMarket == [none |-> TRUE]

AggIdle ==
    /\ grouped = <<>>
    /\ idx = 0
    /\ results = <<>>
    /\ selected = <<>>

ScorersIdle ==
    /\ market = NoMarket
    /\ scorer = "none"
    /\ inp = NoMarket
    /\ out = [signal |-> "flat", confidence |-> 0, reason |-> "", signalType |-> <<"undefined">>]

Init ==
    /\ allItems \in Inputs
    /\ AggIdle
    /\ pc = "start"
    /\ focus = NoSymbol
    /\ firstRun = <<>>
    /\ cycle = 1
    /\ ScorersIdle

\* Where the loop of line 40 stands once `done` of the `total` entries are
\* processed: in the loop, or past it at the return of line 229.
LoopPc(done, total) == IF done < total THEN "loop" ELSE "done"

\* Lines 30-37.
Group ==
    /\ pc = "start"
    /\ grouped' = GroupItems(allItems)
    /\ idx' = 0
    /\ pc' = LoopPc(0, Len(grouped'))
    /\ UNCHANGED <<allItems, results, selected, isoVars, scoreVars>>

\* One pass of the loop of line 40 in which the try block completes.
ProcessEntry ==
    /\ pc = "loop"
    /\ idx < Len(grouped)
    /\ LET e == grouped[idx + 1]
           r == ProcessSymbol(e.symbol, e.arr)
       IN  /\ results' = Append(results, r.rec)
           /\ selected' = Append(selected, [sel |-> r.sel, fault |-> FALSE])
    /\ idx' = idx + 1
    /\ pc' = LoopPc(idx + 1, Len(grouped))
    /\ UNCHANGED <<allItems, grouped, isoVars, scoreVars>>

\* One pass of the loop in which a statement of the try block throws.  Each
\* push of the try block is followed at once by `continue` or by the end of
\* the block, so the throw comes before any push for this symbol.
CatchError ==
    /\ pc = "loop"
    /\ idx < Len(grouped)
    /\ results' = Append(results, ErrorRecord(grouped[idx + 1].symbol, "fault"))
    /\ selected' = Append(selected, [sel |-> <<>>, fault |-> TRUE])
    /\ idx' = idx + 1
    /\ pc' = LoopPc(idx + 1, Len(grouped))
    /\ UNCHANGED <<allItems, grouped, isoVars, scoreVars>>

Next == Group \/ ProcessEntry \/ CatchError

Spec == Init /\ [][Next]_vars

(***************************************************************************)
(* Two runs of the node, to compare what a symbol gets in a batch with     *)
(* what it gets alone: once the batch run has returned, the node runs      *)
(* again on the signals of one symbol only.                                *)
(***************************************************************************)
Projection(items, sym) == SelectSeq(items, LAMBDA s : s.symbol = sym)

RECURSIVE RecordsOf(_, _, _)
\* The records of `res` for `sym`, each with the fault flag of its pass.
RecordsOf(res, sel, sym) ==
    IF res = <<>> THEN <<>>
    ELSE (IF Head(res).symbol = sym
          THEN <<[rec |-> Head(res), fault |-> Head(sel).fault]>>
          ELSE <<>>) \o RecordsOf(Tail(res), Tail(sel), sym)

RunAlone ==
    /\ pc = "done"
    /\ cycle = 1
    /\ \E f \in Symbols :
        /\ focus' = f
        /\ firstRun' = [recs |-> RecordsOf(results, selected, f),
                        otherSymbols |-> \E i \in 1..Len(results) : results[i].symbol # f,
                        otherFault |-> \E i \in 1..Len(results) :
                                          results[i].symbol # f /\ selected[i].fault]
        /\ allItems' = Projection(allItems, f)
    /\ grouped' = <<>>
    /\ idx' = 0
    /\ results' = <<>>
    /\ selected' = <<>>
    /\ pc' = "start"
    /\ cycle' = 2
    /\ UNCHANGED scoreVars

NextIso == Group \/ ProcessEntry \/ CatchError \/ RunAlone

SpecIso == Init /\ [][NextIso]_vars

(***************************************************************************)
(*                              CLAIMS                                     *)
(***************************************************************************)
Range(seq) == {seq[i] : i \in 1..Len(seq)}

InputSymbols == {allItems[i].symbol : i \in 1..Len(allItems)} \ {NoSymbol}

IsTrade(rec) == rec.signal \in {"buy", "sell"}

RECURSIVE Total(_)
Total(seq) == IF seq = <<>> THEN 0 ELSE Head(seq).confidence + Total(Tail(seq))

\* A snapshot with rsi_4h, daily_price_above_ema_200 and atr_4h_norm all
\* present and non-null.
Complete(s) ==
    /\ Tag(s.indicators) = "obj"
    /\ Tag(s.indicators[2].rsi_4h) \notin {"undefined", "null"}
    /\ Tag(s.indicators[2].daily_price_above_ema_200) \notin {"undefined", "null"}
    /\ Tag(s.indicators[2].atr_4h_norm) \notin {"undefined", "null"}

FirstComplete(arr) ==
    CHOOSE i \in 1..Len(arr) : Complete(arr[i]) /\ \A j \in 1..(i - 1) : ~Complete(arr[j])

TrendOf(s) ==
    LET flag == s.indicators[2].daily_price_above_ema_200
    IN  IF flag = <<"bool", TRUE>> THEN "Up"
        ELSE IF flag = <<"bool", FALSE>> THEN "Down" ELSE "Neutral"

MissingDataReasons ==
    {"VETO: No valid indicator data from any scorer.",
     "VETO: Regime Router: Missing required indicator data (RSI, Daily EMA, ATR)."}

\* C1: once the node has returned, the output holds exactly one record for
\* every distinct symbol of the input signals and no record for any other
\* symbol, whichever path each symbol took (veto, no rule matched, buy/sell,
\* caught error).
C1_OneRecordPerSymbol ==
    pc = "done" =>
        /\ \A sym \in InputSymbols :
              Cardinality({k \in 1..Len(results) : results[k].symbol = sym}) = 1
        /\ \A k \in 1..Len(results) : results[k].symbol \in InputSymbols

C1_Witness ==
    /\ pc = "done"
    /\ Cardinality(InputSymbols) >= 2
    /\ \E i \in 1..Len(allItems) : allItems[i].symbol = NoSymbol
    /\ \E k \in 1..Len(results) : selected[k].fault
    /\ \E k \in 1..Len(results) : IsTrade(results[k])

\* C2 (as claimed): the regime is that of the first signal of the symbol's
\* list that carries a complete snapshot, and the missing-indicator flat is
\* emitted only when no signal of the list carries a complete snapshot.
C2_FirstCompleteSnapshot ==
    \A k \in 1..Len(results) :
        ~selected[k].fault =>
            LET arr == Projection(allItems, results[k].symbol)
            IN  IF \E i \in 1..Len(arr) : Complete(arr[i])
                THEN /\ results[k].reason \notin MissingDataReasons
                     /\ results[k].regime = <<"str", TrendOf(arr[FirstComplete(arr)])>>
                ELSE results[k].reason \in MissingDataReasons

\* C3 (as claimed): every flat record the Aggregator emits carries a
\* confidence field equal to 0.
C3_FlatHasZeroConfidence ==
    \A k \in 1..Len(results) :
        results[k].signal = "flat" =>
            /\ Tag(results[k].confidence) = "rat"
            /\ results[k].confidence[2] = 0

\* C4 (as claimed): the confidence of every buy/sell record lies in [0,1],
\* whatever confidences the selected signals carry.
C4_ConfidenceInUnitInterval ==
    \A k \in 1..Len(results) :
        IsTrade(results[k]) =>
            /\ Tag(results[k].confidence) = "rat"
            /\ results[k].confidence[2] >= 0
            /\ results[k].confidence[2] <= 100 * results[k].confidence[3]

\* C5: in regime Up the decision is buy iff a technical or dynamic buy
\* exists; otherwise sell iff a reversion sell exists, and then exactly the
\* reversion sells are selected; otherwise flat.  Regime Down is the mirror.
C5_RuleFor(k, trend, along, against) ==
    LET arr == Projection(allItems, results[k].symbol)
        rec == results[k]
        sel == selected[k].sel
        alongExists == \E i \in 1..Len(arr) :
            /\ arr[i].signal = along
            /\ arr[i].signalType \in
                 {<<"str", t>> : t \in {"momentum", "reversion", "breakout",
                                        "vwap_bias", "liquidity", "market_structure"}}
        IsReversionAgainst(s) == s.signal = against /\ s.signalType = <<"str", "reversion">>
        fadeExists == \E i \in 1..Len(arr) : IsReversionAgainst(arr[i])
    IN  (~selected[k].fault /\ rec.regime = <<"str", trend>>) =>
            /\ rec.signal = along <=> alongExists
            /\ rec.signal = against <=> (~alongExists /\ fadeExists)
            /\ rec.signal = "flat" <=> (~alongExists /\ ~fadeExists)
            /\ rec.signal = against =>
                  /\ \A j \in 1..Len(sel) : IsReversionAgainst(sel[j])
                  /\ \A i \in 1..Len(arr) : IsReversionAgainst(arr[i]) => arr[i] \in Range(sel)

C5_TrendRuleTable ==
    \A k \in 1..Len(results) :
        /\ C5_RuleFor(k, "Up", "buy", "sell")
        /\ C5_RuleFor(k, "Down", "sell", "buy")

\* A counter-trend fade in regime Up next to a sell that is not a reversion.
C5_Witness ==
    \E k \in 1..Len(results) :
        /\ results[k].regime = <<"str", "Up">>
        /\ results[k].signal = "sell"
        /\ \E i \in 1..Len(allItems) :
              /\ allItems[i].symbol = results[k].symbol
              /\ allItems[i].signal = "sell"
              /\ allItems[i].signalType # <<"str", "reversion">>

\* The selected signal a decision takes its fields from: the one of highest
\* confidence, the earliest in input order when several share it.
MaxSelected(k) ==
    CHOOSE c \in {selected[k].sel[j].confidence : j \in 1..Len(selected[k].sel)} :
        \A j \in 1..Len(selected[k].sel) : selected[k].sel[j].confidence <= c

IsBestAt(k, arr, i) == arr[i] \in Range(selected[k].sel) /\ arr[i].confidence = MaxSelected(k)

BestOf(k) ==
    LET arr == Projection(allItems, results[k].symbol)
    IN  arr[CHOOSE i \in 1..Len(arr) :
                IsBestAt(k, arr, i) /\ \A j \in 1..(i - 1) : ~IsBestAt(k, arr, j)]

IsNumber(v) == Tag(v) = "num" /\ v[2] # 0

\* C6: the confidence of a buy/sell decision is the mean of the selected
\* confidences capped at 1; price, SL/TP pips, strategyType, indicators and
\* meta come from the selected signal of highest confidence, the earliest
\* one on ties; every selected signal has the direction of the decision.
C6_MeanAndBestSignal ==
    \A k \in 1..Len(results) :
        IsTrade(results[k]) =>
            LET rec == results[k]
                sel == selected[k].sel
                b == BestOf(k)
            IN  /\ Len(sel) >= 1
                /\ \A j \in 1..Len(sel) : sel[j].signal = rec.signal
                /\ Tag(rec.confidence) = "rat"
                /\ IF Total(sel) >= 100 * Len(sel)
                   THEN rec.confidence[2] = 100 * rec.confidence[3]
                   ELSE rec.confidence[2] * Len(sel) = Total(sel) * rec.confidence[3]
                /\ rec.price = b.price
                /\ rec.strategyType = b.signalType
                /\ rec.indicators = b.indicators
                /\ rec.meta = (IF Tag(b.meta) = "obj" THEN b.meta ELSE EmptyMeta)
                /\ rec.recommendedSLPips =
                      (IF IsNumber(b.recommendedSLPips) THEN b.recommendedSLPips ELSE Null)
                /\ rec.recommendedTPPips =
                      (IF IsNumber(b.recommendedTPPips) THEN b.recommendedTPPips ELSE Null)

\* Two different selected signals share the highest confidence, and a third
\* kind of decision averages unequal confidences.
C6_Witness ==
    \E k \in 1..Len(results) :
        /\ IsTrade(results[k])
        /\ \E i, j \in 1..Len(selected[k].sel) :
              /\ selected[k].sel[i] # selected[k].sel[j]
              /\ selected[k].sel[i].confidence = MaxSelected(k)
              /\ selected[k].sel[j].confidence = MaxSelected(k)

\* C7 (as claimed): every buy/sell decision carries a stop-loss price and a
\* take-profit price, neither of them null.
C7_TradeHasSlAndTp ==
    \A k \in 1..Len(results) :
        IsTrade(results[k]) =>
            /\ Tag(results[k].sl_price) = "num"
            /\ Tag(results[k].tp_price) = "num"

\* C8 (as claimed): with pip the pip_size of the best signal's meta when it
\* has one, else 0.01 for a symbol containing JPY or XAU and 0.0001
\* otherwise, a buy has sl_price = price - SL pips * pip and
\* tp_price = price + TP pips * pip, a sell the mirror.
C8_Pip(k) ==
    LET b == BestOf(k)
        sym == results[k].symbol
    IN  IF Tag(b.meta) = "obj" /\ IsNumber(b.meta[2].pip_size) THEN b.meta[2].pip_size[2]
        ELSE IF \E i \in 1..(Len(sym) - 2) :
                    SubSeq(sym, i, i + 2) \in {<<"J", "P", "Y">>, <<"X", "A", "U">>}
        THEN 100
        ELSE 1

C8_SlTpFormulas ==
    \A k \in 1..Len(results) :
        IsTrade(results[k]) =>
            LET rec == results[k]
                b == BestOf(k)
                dir == IF rec.signal = "buy" THEN 1 ELSE -1
            IN  /\ Tag(b.recommendedSLPips) = "num"
                /\ Tag(b.recommendedTPPips) = "num"
                /\ rec.sl_price =
                      <<"num", b.price[2] - dir * b.recommendedSLPips[2] * C8_Pip(k)>>
                /\ rec.tp_price =
                      <<"num", b.price[2] + dir * b.recommendedTPPips[2] * C8_Pip(k)>>

\* What C8 says of the decisions whose best signal does carry both pips
\* counts (the others are the subject of C7).
C8_WherePipsPresent ==
    \A k \in 1..Len(results) :
        (/\ IsTrade(results[k])
         /\ IsNumber(BestOf(k).recommendedSLPips)
         /\ IsNumber(BestOf(k).recommendedTPPips)) =>
            LET rec == results[k]
                b == BestOf(k)
                dir == IF rec.signal = "buy" THEN 1 ELSE -1
            IN  /\ rec.sl_price =
                      <<"num", b.price[2] - dir * b.recommendedSLPips[2] * C8_Pip(k)>>
                /\ rec.tp_price =
                      <<"num", b.price[2] + dir * b.recommendedTPPips[2] * C8_Pip(k)>>
                /\ rec.signal = "buy" => rec.sl_price[2] < b.price[2] /\ b.price[2] < rec.tp_price[2]
                /\ rec.signal = "sell" => rec.tp_price[2] < b.price[2] /\ b.price[2] < rec.sl_price[2]

\* C10: the record of a symbol is a function of that symbol's signals only.
\* Run alone on the signals of one symbol, the node emits for it the record
\* it emitted in the batch; a fault on one symbol of the batch gives that
\* symbol a flat error record and leaves the records of the others as they
\* are without the fault.
C10_PerSymbolIsolation ==
    (cycle = 2 /\ pc = "done") =>
        /\ Len(firstRun.recs) = Len(results)
        /\ \A j \in 1..Len(results) :
              /\ firstRun.recs[j].fault =>
                    /\ firstRun.recs[j].rec.symbol = focus
                    /\ firstRun.recs[j].rec.signal = "flat"
                    /\ firstRun.recs[j].rec.reason = "VETO: Node error: fault"
              /\ (~firstRun.recs[j].fault /\ ~selected[j].fault) =>
                    firstRun.recs[j].rec = results[j]

\* The batch held other symbols, one of them faulted, and the symbol under
\* comparison got a buy/sell decision in both runs.
C10_Witness ==
    /\ cycle = 2
    /\ pc = "done"
    /\ firstRun.otherSymbols
    /\ firstRun.otherFault
    /\ Len(results) = 1
    /\ ~selected[1].fault
    /\ ~firstRun.recs[1].fault
    /\ IsTrade(results[1])

(***************************************************************************)
(* The six scorers, from their minimum-data check to their return.  A      *)
(* scorer is modelled on the values its indicator helpers hand it: the     *)
(* candle counts and the newest 15m range and ATR(14) are the market's,    *)
(* shared by the six; the rest is the view of one scorer.  Prices and ATRs *)
(* are in units of 0.0001 (1h ATRs are multiples of 8, so that an eighth   *)
(* of one is exact), confidences in hundredths.  A helper result of 0      *)
(* stands for any falsy result (0, null, undefined, NaN).                  *)
(***************************************************************************)
VOLATILITY_SPIKE_MULT == 3

ADX_TREND_THRESHOLD == 25

SR_BONUS_MINOR == 15

SR_BONUS_MAJOR == 30

Min(a, b) == IF a < b THEN a ELSE b

\* atr * SR_ZONE_ATR_MULT, the multiplier being 0.25.
SrZoneAmount(atr) == atr \div 4

ScorerFlat(reason) ==
    [signal |-> "flat", confidence |-> 0, reason |-> reason, signalType |-> Undefined]

\* The run ends in an uncaught exception: the node returns no Signal.
ScorerThrow(message) ==
    [signal |-> "error", confidence |-> 0, reason |-> message, signalType |-> Undefined]

ScorerTrade(signal, confidence, reason, signalType) ==
    [signal |-> signal, confidence |-> confidence, reason |-> reason,
     signalType |-> Str(signalType)]

\* current_15m_range > (avg_15m_range * VOLATILITY_SPIKE_MULT)
VolatilitySpike(m) == m.current_15m_range > m.atr_15m * VOLATILITY_SPIKE_MULT

\* out.confidence = Math.max(0, Math.min(1, Number(out.confidence || 0)))
\* and out.signalType = mapType[out.signalType] || out.signalType || <own type>
\* and out.recommendedSLPips = out.recommendedSLPips
\*                             ? Math.round(out.recommendedSLPips) : null,
\* the pips handed in being whole numbers already; the same for the TP.
PipsOrNull(o, key) == IF key \in DOMAIN o /\ Truthy(o[key]) THEN o[key] ELSE Null

NormalizeOutput(o, ownType) ==
    [signal |-> o.signal,
     confidence |-> Max(0, Min(100, o.confidence)),
     reason |-> o.reason,
     signalType |-> IF Truthy(o.signalType) THEN o.signalType ELSE Str(ownType),
     recommendedSLPips |-> PipsOrNull(o, "recommendedSLPips"),
     recommendedTPPips |-> PipsOrNull(o, "recommendedTPPips")]

(***************************************************************************)
(* Scorer v4.7 (momentum, reversion and shallow pullback along the 4h     *)
(* trend).                                                                 *)
(***************************************************************************)
Bonus(cond, amount) == IF cond THEN amount ELSE 0

\* Step 5: the 15m entry for the bias, or no entry.
MomentumEntry(htf_bias, v) ==
    IF htf_bias = "long" THEN
        IF v.last_price_15m > v.last_ema_15m /\ v.last_rsi_15m > 55
        THEN [entry |-> TRUE, signal |-> "buy", signalType |-> "momentum",
              base |-> 50 + 15 + Bonus(v.last_rsi_4h > 60, 15) + Bonus(v.last_rsi_15m > 65, 10)]
        ELSE IF v.last_rsi_15m < 35
        THEN [entry |-> TRUE, signal |-> "buy", signalType |-> "reversion",
              base |-> 50 + Bonus(v.last_rsi_4h > 60, 10) + Bonus(v.last_rsi_15m < 25, 20)]
        ELSE IF v.last_price_15m <= v.last_ema_15m /\ v.last_rsi_15m > 40
        THEN [entry |-> TRUE, signal |-> "buy", signalType |-> "shallow_pullback",
              base |-> 60 + Bonus(v.last_rsi_4h > 60, 15)]
        ELSE [entry |-> FALSE, signal |-> "flat", signalType |-> "none", base |-> 50]
    ELSE
        IF v.last_price_15m < v.last_ema_15m /\ v.last_rsi_15m < 45
        THEN [entry |-> TRUE, signal |-> "sell", signalType |-> "momentum",
              base |-> 50 + 15 + Bonus(v.last_rsi_4h < 40, 15) + Bonus(v.last_rsi_15m < 35, 10)]
        ELSE IF v.last_rsi_15m > 65
        THEN [entry |-> TRUE, signal |-> "sell", signalType |-> "reversion",
              base |-> 50 + Bonus(v.last_rsi_4h < 40, 10) + Bonus(v.last_rsi_15m > 75, 20)]
        ELSE IF v.last_price_15m >= v.last_ema_15m /\ v.last_rsi_15m < 60
        THEN [entry |-> TRUE, signal |-> "sell", signalType |-> "shallow_pullback",
              base |-> 60 + Bonus(v.last_rsi_4h < 40, 15)]
        ELSE [entry |-> FALSE, signal |-> "flat", signalType |-> "none", base |-> 50]

\* The pivots of the S/R provider under the keys this scorer reads.
PivotLevels(p, r1, r2, r3, s1, s2, s3) ==
    Obj([p |-> p, r1 |-> r1, r2 |-> r2, r3 |-> r3, s1 |-> s1, s2 |-> s2, s3 |-> s3])

RECURSIVE NumbersOf(_)
\* levels.filter(Boolean), as the numbers left.
NumbersOf(levels) ==
    IF levels = <<>> THEN <<>>
    ELSE (IF Truthy(Head(levels)) THEN <<Head(levels)[2]>> ELSE <<>>)
         \o NumbersOf(Tail(levels))

\* Lines 262-280: supportLevels.
SupportLevels(htf_bias, v) ==
    NumbersOf((IF Truthy(v.pivots)
               THEN <<v.pivots[2].s1, v.pivots[2].s2, v.pivots[2].s3, v.pdl, v.pivots[2].p>>
               ELSE <<>>)
              \o (IF htf_bias = "long" THEN <<Num(v.last_ema_4h)>> ELSE <<>>))

\* Lines 262-280: resistanceLevels.
ResistanceLevels(htf_bias, v) ==
    NumbersOf((IF Truthy(v.pivots)
               THEN <<v.pivots[2].r1, v.pivots[2].r2, v.pivots[2].r3, v.pdh, v.pivots[2].p>>
               ELSE <<>>)
              \o (IF htf_bias = "short" THEN <<Num(v.last_ema_4h)>> ELSE <<>>))

\* last_price_15m > (r - sr_zone_amount) && last_price_15m < (r + sr_zone_amount)
InZone(price, level, zone) == price > level - zone /\ price < level + zone

RECURSIVE AnyInZone(_, _, _)
\* A `for ... of` loop over the levels that stops at the first one whose
\* zone holds the price.
AnyInZone(levels, price, zone) ==
    IF levels = <<>> THEN FALSE
    ELSE IF InZone(price, Head(levels), zone) THEN TRUE
    ELSE AnyInZone(Tail(levels), price, zone)

\* Faulty variant of SrAdjust: the bonus loop runs after a penalty too.
SrAdjust_Stacked(signal, price, zone, support, resistance) ==
    LET against == IF signal = "buy" THEN resistance ELSE support
        behind == IF signal = "buy" THEN support ELSE resistance
        penalty == AnyInZone(against, price, zone)
        bonus == AnyInZone(behind, price, zone)
    IN  [amount |-> Bonus(penalty, -30) + Bonus(bonus, 20),
         marker |-> (IF penalty THEN " (Penalty)" ELSE "") \o (IF bonus THEN " (Bonus)" ELSE "")]

\* Filter 2 with a penalty of 0.5 in place of 0.3.
SrAdjust_HeavyPenalty(signal, price, zone, support, resistance) ==
    LET against == IF signal = "buy" THEN resistance ELSE support
        behind == IF signal = "buy" THEN support ELSE resistance
    IN  IF AnyInZone(against, price, zone) THEN [amount |-> -50, marker |-> " (Penalty)"]
        ELSE IF AnyInZone(behind, price, zone) THEN [amount |-> 20, marker |-> " (Bonus)"]
        ELSE [amount |-> 0, marker |-> ""]

\* Filter 2: one penalty for a price in the zone of a level against the
\* trade, else one bonus for a price in the zone of a level behind it, with
\* the text each adds to the reason.
SrAdjust(signal, price, zone, support, resistance) ==
    LET against == IF signal = "buy" THEN resistance ELSE support
        behind == IF signal = "buy" THEN support ELSE resistance
    IN  IF AnyInZone(against, price, zone)
        THEN [amount |-> -30,
              marker |-> IF signal = "buy" THEN " (Penalty: At Resistance)"
                                           ELSE " (Penalty: At Support)"]
        ELSE IF AnyInZone(behind, price, zone)
        THEN [amount |-> 20,
              marker |-> IF signal = "buy" THEN " (Bonus: At Support)"
                                           ELSE " (Bonus: At Resistance)"]
        ELSE [amount |-> 0, marker |-> ""]

\* Math.min(...targets) and Math.max(...targets).
SeqMin(S) == CHOOSE x \in S : \A y \in S : x <= y

SeqMax(S) == CHOOSE x \in S : \A y \in S : y <= x

\* a || b
OrElse(a, b) == IF Truthy(a) THEN a ELSE b

\* `let recommendedTPPips = 60`, line 127.
DefaultTPPips == 60

\* Math.round(num / den) for num >= 0 and den > 0.
RoundDiv(num, den) == (2 * num + den) \div (2 * den)

\* Math.max(20, Math.round((last_atr_1h * 1.5) / pipSize))
MomentumSLPips(atr, pipSize) == Max(20, RoundDiv(3 * atr, 2 * pipSize))

\* Step 8, lines 341-369.  The distance to the target is kept as the price
\* difference `reward`, the pips being reward / pipSize; half a zone is
\* atr / 8.
MomentumTPPips(signal, price, atr, pipSize, sl, support, resistance) ==
    LET targets == IF signal = "buy"
                   THEN {resistance[k] : k \in {j \in 1..Len(resistance) : resistance[j] > price}}
                   ELSE {support[k] : k \in {j \in 1..Len(support) : support[j] < price}}
        reward == IF signal = "buy"
                  THEN (SeqMin(targets) - atr \div 8) - price
                  ELSE price - (SeqMax(targets) + atr \div 8)
    IN  IF targets = {}
        THEN IF DefaultTPPips < sl THEN RoundDiv(3 * sl, 2) ELSE DefaultTPPips
        ELSE IF reward = 0 \/ reward < sl * pipSize THEN RoundDiv(3 * sl, 2)
        ELSE RoundDiv(reward, pipSize)

\* meta.pip_size || 0.01
MomentumPipSize(v) == OrElse(v.pip_size, Num(100))[2]

Scorer_Momentum(m, v) ==
    IF m.items_length < 3
    THEN ScorerThrow("Scorer (AI Agent) expects 3 items from AI_Merge node.")
    ELSE IF m.len_4h < 55 \/ m.len_15m < 30 \/ m.len_1h < 30
    THEN ScorerFlat("Not enough data for EMAs/RSI")
    ELSE IF \/ v.last_rsi_4h = 0 \/ v.last_ema_4h = 0 \/ v.last_rsi_15m = 0
            \/ v.last_ema_15m = 0 \/ v.last_atr_1h = 0 \/ m.atr_15m = 0
    THEN ScorerFlat("Indicator calculation failed, not enough data.")
    ELSE IF VolatilitySpike(m)
    THEN ScorerFlat("VETO: Volatility spike detected.")
    ELSE IF ~(v.last_price_4h > v.last_ema_4h /\ v.last_rsi_4h > 52)
            /\ ~(v.last_price_4h < v.last_ema_4h /\ v.last_rsi_4h < 48)
    THEN ScorerFlat("HTF chop")
    ELSE LET htf_bias == IF v.last_price_4h > v.last_ema_4h /\ v.last_rsi_4h > 52
                         THEN "long" ELSE "short"
             e == MomentumEntry(htf_bias, v)
             support == SupportLevels(htf_bias, v)
             resistance == ResistanceLevels(htf_bias, v)
             sr == SrAdjust(e.signal, v.last_price_15m, SrZoneAmount(v.last_atr_1h),
                            support, resistance)
             confidence == Min(100, e.base + sr.amount)
             sl == MomentumSLPips(v.last_atr_1h, MomentumPipSize(v))
         IN  IF ~e.entry THEN ScorerFlat("no 15m entry")
             ELSE IF confidence < 10
             THEN ScorerFlat("VETO: S/R context makes confidence too low")
             ELSE ScorerTrade(e.signal, confidence, "entry" \o sr.marker, e.signalType)
                  @@ [recommendedSLPips |-> sl,
                      recommendedTPPips |->
                          MomentumTPPips(e.signal, v.last_price_15m, v.last_atr_1h,
                                         MomentumPipSize(v), sl, support, resistance)]

\* What the S/R provider handed over: no pivots; a resistance right above
\* the price; a support right below it and the pivot point as the nearest
\* level above; the pivot point next to the price; levels far from it.
MomentumLevels ==
    {[pivots |-> Undefined, pdh |-> Undefined, pdl |-> Undefined],
     [pivots |-> PivotLevels(Num(10950), Num(11005), Num(11150), Undefined,
                             Num(10900), Num(10850), Undefined),
      pdh |-> Num(11200), pdl |-> Num(10800)],
     [pivots |-> PivotLevels(Num(11050), Num(11150), Num(11300), Undefined,
                             Num(10995), Num(10800), Undefined),
      pdh |-> Num(11100), pdl |-> Num(10900)],
     [pivots |-> PivotLevels(Num(11003), Num(11150), Undefined, Undefined,
                             Num(10850), Undefined, Undefined),
      pdh |-> Num(11200), pdl |-> Num(10800)],
     [pivots |-> PivotLevels(Num(0), Num(11120), Num(11240), Null,
                             Num(10880), Num(10760), Null),
      pdh |-> Num(11180), pdl |-> Num(10820)]}

MomentumViews ==
    {i @@ l : i \in [last_price_4h : {11000}, last_ema_4h : {10900, 11100},
                     last_rsi_4h : {0, 45, 50, 55, 61},
                     last_price_15m : {11000}, last_ema_15m : {10950, 11000, 11050},
                     last_rsi_15m : {20, 30, 42, 50, 58, 70},
                     last_atr_1h : {8, 40, 56}, pip_size : {Undefined, Num(1)}],
               l \in MomentumLevels}

(***************************************************************************)
(* Scorer_Breakout v2.1 (break and retest of the previous day's high or    *)
(* low).                                                                   *)
(***************************************************************************)
\* Faulty variant of BreakoutTP: reads the pivots under their lower-case keys.
BreakoutTP_Lowercase(signal, v) ==
    LET zone == SrZoneAmount(v.last_atr_1h)
        currentPrice == v.last_price_15m
    IN  IF signal = "buy"
        THEN LET sl == v.pdh - zone
                 tp == v.pivots[2].r1
             IN  IF Truthy(tp) /\ tp[2] < currentPrice + (currentPrice - sl)
                 THEN OrElse(v.pivots[2].r2, tp) ELSE tp
        ELSE LET sl == v.pdl + zone
                 tp == v.pivots[2].s1
             IN  IF Truthy(tp) /\ tp[2] > currentPrice - (sl - currentPrice)
                 THEN OrElse(v.pivots[2].s2, tp) ELSE tp

\* Step 7: the take-profit price, or a falsy value when there is none.
BreakoutTP(signal, v) ==
    LET zone == SrZoneAmount(v.last_atr_1h)
        currentPrice == v.last_price_15m
    IN  IF signal = "buy"
        THEN LET sl == v.pdh - zone
                 tp == v.pivots[2].R1
             IN  IF Truthy(tp) /\ tp[2] < currentPrice + (currentPrice - sl)
                 THEN OrElse(v.pivots[2].R2, tp) ELSE tp
        ELSE LET sl == v.pdl + zone
                 tp == v.pivots[2].S1
             IN  IF Truthy(tp) /\ tp[2] > currentPrice - (sl - currentPrice)
                 THEN OrElse(v.pivots[2].S2, tp) ELSE tp

\* new Date(time * 1000).getUTCHours(), the time being in seconds since
\* the epoch; NaN when the candle carries no numeric time.
CurrentHour(time) == IF Tag(time) = "num" THEN Num((time[2] \div 3600) % 24) ELSE NaN

\* (currentHour >= 7 && currentHour <= 10) || (currentHour >= 12 && currentHour <= 15);
\* every comparison with NaN is false.
IsHighLiquidity(currentHour) ==
    /\ Tag(currentHour) = "num"
    /\ \/ (currentHour[2] >= 7 /\ currentHour[2] <= 10)
       \/ (currentHour[2] >= 12 /\ currentHour[2] <= 15)

\* Faulty variant of BreakoutEntry: without the session filter.
BreakoutEntry_AnyHour(v) ==
    LET zone == SrZoneAmount(v.last_atr_1h)
    IN  IF v.last_price_4h > v.last_ema_4h
        THEN IF /\ v.prev_close_15m > v.pdh
                /\ v.last_price_15m < v.pdh + zone /\ v.last_price_15m > v.pdh
                /\ v.last_rsi_15m > 55
             THEN "buy" ELSE "flat"
        ELSE IF v.last_price_4h < v.last_ema_4h
        THEN IF /\ v.prev_close_15m < v.pdl
                /\ v.last_price_15m > v.pdl - zone /\ v.last_price_15m < v.pdl
                /\ v.last_rsi_15m < 45
             THEN "sell" ELSE "flat"
        ELSE "flat"

\* Step 5: the break-and-retest entry.
BreakoutEntry(v) ==
    LET zone == SrZoneAmount(v.last_atr_1h)
        isHighLiquidity == IsHighLiquidity(CurrentHour(v.time))
    IN  IF v.last_price_4h > v.last_ema_4h /\ isHighLiquidity
        THEN IF /\ v.prev_close_15m > v.pdh
                /\ v.last_price_15m < v.pdh + zone /\ v.last_price_15m > v.pdh
                /\ v.last_rsi_15m > 55
             THEN "buy" ELSE "flat"
        ELSE IF v.last_price_4h < v.last_ema_4h /\ isHighLiquidity
        THEN IF /\ v.prev_close_15m < v.pdl
                /\ v.last_price_15m > v.pdl - zone /\ v.last_price_15m < v.pdl
                /\ v.last_rsi_15m < 45
             THEN "sell" ELSE "flat"
        ELSE "flat"

Scorer_Breakout(m, v) ==
    IF m.items_length < 3
    THEN ScorerThrow("Scorer (B&R) expects 3 items from AI_Merge node.")
    ELSE IF m.len_4h < 55 \/ m.len_15m < 30 \/ m.len_1h < 30 \/ v.pdh = 0 \/ v.pdl = 0
    THEN ScorerFlat("Not enough data for B&R (needs candles + PDH/PDL)")
    ELSE IF \/ v.last_rsi_4h = 0 \/ v.last_ema_4h = 0 \/ v.last_rsi_15m = 0
            \/ v.last_atr_1h = 0 \/ m.atr_15m = 0
    THEN ScorerFlat("Indicator calculation failed, not enough data.")
    ELSE IF VolatilitySpike(m)
    THEN ScorerFlat("VETO (B&R): Volatility spike detected. Market unsafe.")
    ELSE LET signal == BreakoutEntry(v)
         IN  IF signal = "flat" THEN ScorerFlat("No B&R setup")
             ELSE IF Tag(v.pivots) # "obj"
             THEN ScorerThrow("TypeError: Cannot read properties of undefined (reading 'R1')")
             ELSE IF ~Truthy(BreakoutTP(signal, v))
             THEN ScorerFlat("VETO: no valid S/R pivot found for Take Profit.")
             ELSE ScorerTrade(signal, 85, "Break-and-Retest", "break-and-retest")

\* The pivots object of the S/R node: absent, with the documented lower-case
\* keys (the upper-case keys the scorer reads are then undefined), or with
\* upper-case keys.
Pivots(r1, r2, s1, s2, R1, R2, S1, S2) ==
    Obj([r1 |-> r1, r2 |-> r2, s1 |-> s1, s2 |-> s2,
         R1 |-> R1, R2 |-> R2, S1 |-> S1, S2 |-> S2])

LowercasePivots ==
    Pivots(Num(11060), Num(11120), Num(10840), Num(10780),
           Undefined, Undefined, Undefined, Undefined)

PivotSets ==
    {Undefined,
     LowercasePivots,
     Pivots(Undefined, Undefined, Undefined, Undefined,
            Num(11060), Num(11120), Num(10840), Num(10780)),
     Pivots(Undefined, Undefined, Undefined, Undefined,
            Num(11010), Undefined, Num(10892), Undefined)}

\* Times of a newest 15m candle on 2023-11-15 (UTC), midnight being
\* at 1700006400: 06:45, 07:00, 10:45, 11:00, 15:45, 16:00 and 18:00; or none.
\* 00:00 UTC of that day plus the seconds given.
AtTime(seconds) == Num(1700006400 + seconds)

CandleTimes ==
    {Undefined} \cup {AtTime(900 * q) : q \in {27, 28, 43, 44, 63, 64, 72}}

BreakoutViews ==
    [last_price_4h : {11000}, last_ema_4h : {10900, 11000, 11100},
     last_rsi_4h : {55}, last_rsi_15m : {40, 50, 60}, last_atr_1h : {40},
     prev_close_15m : {10890, 10950, 11010},
     last_price_15m : {10895, 10950, 11005, 11030},
     pdh : {0, 11000}, pdl : {10900}, time : CandleTimes, pivots : PivotSets]

(***************************************************************************)
(* Scorer_Mean_Reversion (fades a 15m extreme outside the Bollinger        *)
(* bands).                                                                 *)
(***************************************************************************)
\* Step 5 and the confidence of the entry before the S/R bonus.
\* The result of calculateBollingerBands: the middle band is num/den and
\* the bands lie stdDev standard deviations from it, dev2/den^2 being the
\* square of that distance; valid is FALSE for the result of nulls.
Bands(num, den, dev2) == [valid |-> TRUE, num |-> num, den |-> den, dev2 |-> dev2]

NoBands == [valid |-> FALSE, num |-> 0, den |-> 1, dev2 |-> 0]

\* Bands of whole numbers: the middle band and its distance to each band.
BandsAround(middle, distance) == Bands(middle, 1, distance * distance)

\* !bb_15m.upper: null, or a band of exactly 0.
UpperFalsy(bb) == ~bb.valid \/ (bb.num <= 0 /\ bb.num * bb.num = bb.dev2)

\* last_price_15m > bb_15m.upper with the lower band in its place.
AtLowerBand_UpperBand(price, bb) ==
    \/ price * bb.den < bb.num
    \/ (price * bb.den - bb.num) * (price * bb.den - bb.num) < bb.dev2

\* last_price_15m < bb_15m.lower
AtLowerBand(price, bb) ==
    /\ price * bb.den < bb.num
    /\ (bb.num - price * bb.den) * (bb.num - price * bb.den) > bb.dev2

\* last_price_15m > bb_15m.upper
AtUpperBand(price, bb) ==
    /\ price * bb.den > bb.num
    /\ (price * bb.den - bb.num) * (price * bb.den - bb.num) > bb.dev2

ReversionEntry(v) ==
    LET isRanging == v.last_adx_4h < ADX_TREND_THRESHOLD
        isTrendingUp == v.last_adx_4h >= ADX_TREND_THRESHOLD /\ v.plusDI > v.minusDI
        isTrendingDown == v.last_adx_4h >= ADX_TREND_THRESHOLD /\ v.minusDI > v.plusDI
        baseConfidence == 30
    IN  IF AtLowerBand(v.last_price_15m, v.bb) /\ v.last_stochRSI_k < 20
        THEN [signal |-> "buy",
              confidence |-> IF isRanging THEN baseConfidence + 40
                             ELSE IF isTrendingUp THEN baseConfidence + 30
                             ELSE IF isTrendingDown THEN baseConfidence ELSE 0]
        ELSE IF AtUpperBand(v.last_price_15m, v.bb) /\ v.last_stochRSI_k > 80
        THEN [signal |-> "sell",
              confidence |-> IF isRanging THEN baseConfidence + 40
                             ELSE IF isTrendingDown THEN baseConfidence + 30
                             ELSE IF isTrendingUp THEN baseConfidence ELSE 0]
        ELSE [signal |-> "flat", confidence |-> 0]

Scorer_Mean_Reversion(m, v) ==
    IF m.items_length < 3
    THEN ScorerThrow("Scorer (Mean Reversion) expects 3 items from AI_Merge node.")
    ELSE IF m.len_4h < 50 \/ m.len_15m < 50 \/ m.len_1h < 30 \/ ~v.pivots
    THEN ScorerFlat("Not enough data for Mean Reversion (needs candles + pivots)")
    ELSE IF \/ v.last_adx_4h = 0 \/ v.last_stochRSI_k = 0 \/ UpperFalsy(v.bb)
            \/ v.last_atr_1h = 0 \/ m.atr_15m = 0
    THEN ScorerFlat("Indicator calculation failed, not enough data.")
    ELSE IF VolatilitySpike(m)
    THEN ScorerFlat("VETO (Reversion): Volatility spike detected. Market unsafe.")
    ELSE LET e == ReversionEntry(v)
             bonus == IF v.confluence = "major" THEN SR_BONUS_MAJOR
                      ELSE IF v.confluence = "minor" THEN SR_BONUS_MINOR ELSE 0
             confidence == Min(100, e.confidence + bonus)
         IN  IF e.signal = "flat" THEN ScorerFlat("No reversion signal")
             ELSE IF confidence < 30
             THEN ScorerFlat("VETO: Context makes confidence too low")
             ELSE ScorerTrade(e.signal, confidence, "reversion", "reversion")
                  @@ [recommendedTPPrice |-> <<v.bb.num, v.bb.den>>]

ReversionViews ==
    [last_adx_4h : {0, 15, 30}, plusDI : {20}, minusDI : {10, 20, 30},
     last_stochRSI_k : {0, 10, 50, 90},
     last_price_15m : {10940, 11000, 11060}, bb : {BandsAround(11000, 50)},
     last_atr_1h : {40}, pivots : BOOLEAN, confluence : {"none", "minor", "major"}]

(***************************************************************************)
(* Scorer_VWAP v1.0 (pullback to the 15m VWAP along the daily bias).  Its  *)
(* RSI, ATR and EMA helpers are elided in the source ("same as other       *)
(* scorers"); the view carries their results.                              *)
(***************************************************************************)
VwapSignal(v) ==
    LET last_price == v.last_price
        vwap_zone == SrZoneAmount(v.atr_1h)
        inZone == /\ last_price < v.vwap_15m[2] + vwap_zone
                  /\ last_price > v.vwap_15m[2] - vwap_zone
    IN  IF v.daily_above_200 /\ last_price > v.vwap_1h[2]
        THEN IF inZone THEN "buy" ELSE "flat"
        ELSE IF ~v.daily_above_200 /\ last_price < v.vwap_1h[2]
        THEN IF inZone THEN "sell" ELSE "flat"
        ELSE "flat"

\* Faulty variant of Scorer_VWAP: without the volume/typical check.
Scorer_VWAP_NoVolumeCheck(m, v) ==
    IF m.items_length < 3
    THEN ScorerThrow("Scorer (VWAP) expects 3 items from AI_Merge node.")
    ELSE IF m.len_1h < 24 \/ m.len_15m < 24 \/ m.len_4h < 50 \/ m.len_daily < 200
    THEN NormalizeOutput(ScorerFlat("Not enough candle data"), "vwap_bias")
    ELSE IF ~Truthy(v.vwap_1h) \/ ~Truthy(v.vwap_15m) \/ v.atr_1h = 0
    THEN NormalizeOutput(ScorerFlat("Failed to calculate VWAP or ATR."), "vwap_bias")
    ELSE LET signal == VwapSignal(v)
         IN  NormalizeOutput(
                 IF signal = "flat"
                 THEN ScorerTrade("flat", 0, "No signal", "vwap_bias")
                 ELSE ScorerTrade(signal, 65, "Pullback to 15m VWAP", "vwap_bias"),
                 "vwap_bias")

Scorer_VWAP(m, v) ==
    IF m.items_length < 3
    THEN ScorerThrow("Scorer (VWAP) expects 3 items from AI_Merge node.")
    ELSE IF m.len_1h < 24 \/ m.len_15m < 24 \/ m.len_4h < 50 \/ m.len_daily < 200
    THEN NormalizeOutput(ScorerFlat("Not enough candle data"), "vwap_bias")
    ELSE IF ~v.volumeAndTypical
    THEN NormalizeOutput(
             ScorerFlat("VETO: Candle data is missing volume or typical properties."),
             "vwap_bias")
    ELSE IF ~Truthy(v.vwap_1h) \/ ~Truthy(v.vwap_15m) \/ v.atr_1h = 0
    THEN NormalizeOutput(ScorerFlat("Failed to calculate VWAP or ATR."), "vwap_bias")
    ELSE LET signal == VwapSignal(v)
         IN  NormalizeOutput(
                 IF signal = "flat"
                 THEN ScorerTrade("flat", 0, "No signal", "vwap_bias")
                 ELSE ScorerTrade(signal, 65, "Pullback to 15m VWAP", "vwap_bias"),
                 "vwap_bias")

VwapViews ==
    [volumeAndTypical : BOOLEAN, daily_above_200 : BOOLEAN,
     vwap_1h : {Null, Num(10990), Num(11010)},
     vwap_15m : {Null, Num(11005), Num(11100)},
     last_price : {11000}, atr_1h : {0, 40}]

(***************************************************************************)
(* Scorer_Liquidity v1.1 (pullback to the nearest 1h fair value gap).      *)
(***************************************************************************)
\* targets[0] of the bullish gaps below the price, sorted by top, highest
\* first: of the gaps with the highest top, the one that came first.
NearestBullish(gaps, last_price) ==
    LET targets == SelectSeq(gaps, LAMBDA g : g.top < last_price)
        best == SeqMax({targets[i].top : i \in 1..Len(targets)})
    IN  IF targets = <<>> THEN <<>>
        ELSE <<targets[SeqMin({i \in 1..Len(targets) : targets[i].top = best})]>>

\* targets[0] of the bearish gaps above the price, sorted by bottom, lowest
\* first.
NearestBearish(gaps, last_price) ==
    LET targets == SelectSeq(gaps, LAMBDA g : g.bottom > last_price)
        best == SeqMin({targets[i].bottom : i \in 1..Len(targets)})
    IN  IF targets = <<>> THEN <<>>
        ELSE <<targets[SeqMin({i \in 1..Len(targets) : targets[i].bottom = best})]>>

\* Step 4: the nearest gap on the side of the bias, the signal when the
\* price is within one ATR of it, and the stop price behind the gap.
LiquiditySignal(v) ==
    LET last_price == v.last_price
        below == NearestBullish(v.bullish, last_price)
        above == NearestBearish(v.bearish, last_price)
        none == [signal |-> "flat", slPrice |-> 0]
    IN  IF v.daily_200_ema /\ Len(v.bullish) > 0
        THEN IF below # <<>> /\ last_price - below[1].top > 0
                /\ last_price - below[1].top < v.atr_1h_value
             THEN [signal |-> "buy", slPrice |-> below[1].bottom - v.atr_1h_value \div 4]
             ELSE none
        ELSE IF ~v.daily_200_ema /\ Len(v.bearish) > 0
        THEN IF above # <<>> /\ above[1].bottom - last_price > 0
                /\ above[1].bottom - last_price < v.atr_1h_value
             THEN [signal |-> "sell", slPrice |-> above[1].top + v.atr_1h_value \div 4]
             ELSE none
        ELSE none

\* meta.pip_size || (symbol.includes('JPY') ? 0.01 : 0.0001)
LiquidityPipSize(v) ==
    OrElse(v.pip_size, IF Includes(v.symbol, JPY) THEN Num(100) ELSE Num(1))[2]

\* Math.abs(x)
Abs(x) == IF x < 0 THEN -x ELSE x

\* slPips = Math.max(15, Math.round(atr_1h_pips * 1.5)), with
\* atr_1h_pips = Math.round(atr_1h_value / pipSize).
LiquiditySLPips(v) == Max(15, RoundDiv(3 * RoundDiv(v.atr_1h_value, LiquidityPipSize(v)), 2))

\* tpPips = Math.round(calculatedSLPips * 2.0), with
\* calculatedSLPips = Math.abs(last_price - slPrice) / pipSize.
LiquidityTPPips(v, slPrice) == RoundDiv(2 * Abs(v.last_price - slPrice), LiquidityPipSize(v))

Scorer_Liquidity(m, v) ==
    IF m.items_length < 3
    THEN ScorerThrow("Scorer (Liquidity) expects 3 items from AI_Merge node.")
    ELSE IF m.len_1h < 50 \/ m.len_4h < 50 \/ m.len_daily < 200
    THEN NormalizeOutput(ScorerFlat("Not enough candle data"), "liquidity")
    ELSE IF v.atr_1h_value = 0
    THEN NormalizeOutput(ScorerFlat("Could not calculate 1H ATR"), "liquidity")
    ELSE LET s == LiquiditySignal(v)
         IN  NormalizeOutput(
                 IF s.signal = "flat"
                 THEN ScorerTrade("flat", 0, "No signal", "liquidity")
                      @@ [recommendedSLPips |-> Null, recommendedTPPips |-> Null]
                 ELSE ScorerTrade(s.signal, 60, "Pullback to nearest 1H FVG", "liquidity")
                      @@ [recommendedSLPips |-> Num(LiquiditySLPips(v)),
                          recommendedTPPips |-> Num(LiquidityTPPips(v, s.slPrice))],
                 "liquidity")

Gap(top, bottom) == [top |-> top, bottom |-> bottom]

LiquidityViews ==
    [daily_200_ema : BOOLEAN, atr_1h_value : {0, 40}, last_price : {11000},
     symbol : {EURUSD, USDJPY}, pip_size : {Undefined, Num(1)},
     bullish : {<<>>, <<Gap(10980, 10970)>>, <<Gap(10900, 10890)>>,
                <<Gap(10900, 10890), Gap(10980, 10970)>>, <<Gap(11020, 11010)>>},
     bearish : {<<>>, <<Gap(11030, 11020)>>, <<Gap(11100, 11090)>>}]

(***************************************************************************)
(* Scorer_Structure v1.1 (1h break of the previous day's high or low).     *)
(***************************************************************************)
StructureEntry(v) ==
    LET bullishBreak == v.prev_price < v.pdh /\ v.last_price > v.pdh /\ v.rsi_1h > 55
        bearishBreak == v.prev_price > v.pdl /\ v.last_price < v.pdl /\ v.rsi_1h < 45
    IN  IF v.daily_above_200
        THEN IF bullishBreak THEN [signal |-> "buy", confidence |-> 70]
             ELSE IF bearishBreak THEN [signal |-> "sell", confidence |-> 65]
             ELSE [signal |-> "flat", confidence |-> 0]
        ELSE IF bearishBreak THEN [signal |-> "sell", confidence |-> 70]
             ELSE IF bullishBreak THEN [signal |-> "buy", confidence |-> 65]
             ELSE [signal |-> "flat", confidence |-> 0]

Scorer_Structure(m, v) ==
    IF m.items_length < 3
    THEN ScorerThrow("Scorer (Structure) expects 3 items from AI_Merge node.")
    ELSE IF m.len_1h < 50 \/ m.len_4h < 50 \/ m.len_daily < 200
    THEN NormalizeOutput(ScorerFlat("Not enough candle data"), "market_structure")
    ELSE IF v.pdh = 0 \/ v.pdl = 0
    THEN NormalizeOutput(ScorerFlat("VETO: Missing PDH/PDL from srData."), "market_structure")
    ELSE IF v.atr_1h = 0 \/ v.rsi_1h = 0
    THEN NormalizeOutput(ScorerFlat("Failed to calculate ATR/RSI."), "market_structure")
    ELSE LET e == StructureEntry(v)
         IN  NormalizeOutput(
                 ScorerTrade(e.signal, e.confidence,
                             IF e.signal = "flat" THEN "No signal" ELSE "Break of PDH/PDL",
                             "market_structure"),
                 "market_structure")

StructureViews ==
    [pdh : {0, 11000}, pdl : {10900}, daily_above_200 : BOOLEAN, atr_1h : {40},
     rsi_1h : {0, 40, 50, 60}, prev_price : {10890, 10950, 11010},
     last_price : {10890, 10950, 11010}]

(***************************************************************************)
(* One cycle of the scorers: each runs once on the market of the cycle.    *)
(***************************************************************************)
Markets ==
    [items_length : {3}, len_4h : {40, 52, 60}, len_15m : {60}, len_1h : {60},
     len_daily : {250}, current_15m_range : {30, 31}, atr_15m : {0, 10}]
    \cup
    [items_length : {2}, len_4h : {60}, len_15m : {60}, len_1h : {60},
     len_daily : {250}, current_15m_range : {30}, atr_15m : {10}]

InitScorers ==
    /\ allItems = <<>>
    /\ AggIdle
    /\ pc = "scorers"
    /\ focus = NoSymbol
    /\ firstRun = <<>>
    /\ cycle = 1
    /\ market \in Markets
    /\ scorer = "none"
    /\ inp = NoMarket
    /\ out = ScorerFlat("")

\* No scorer has run yet in this cycle.
ScorerPending == pc = "scorers" /\ scorer = "none"

RunScorer(name, v, result) ==
    /\ ScorerPending
    /\ scorer' = name
    /\ inp' = v
    /\ out' = result
    /\ UNCHANGED <<market, aggVars, isoVars>>

RunMomentum ==
    ScorerPending /\ \E v \in MomentumViews : RunScorer("momentum", v, Scorer_Momentum(market, v))

RunBreakout ==
    ScorerPending /\ \E v \in BreakoutViews : RunScorer("breakout", v, Scorer_Breakout(market, v))

RunMeanReversion ==
    ScorerPending /\ \E v \in ReversionViews : RunScorer("mean_reversion", v, Scorer_Mean_Reversion(market, v))

RunVWAP ==
    ScorerPending /\ \E v \in VwapViews : RunScorer("vwap", v, Scorer_VWAP(market, v))

RunLiquidity ==
    ScorerPending /\ \E v \in LiquidityViews : RunScorer("liquidity", v, Scorer_Liquidity(market, v))

RunStructure ==
    ScorerPending /\ \E v \in StructureViews : RunScorer("structure", v, Scorer_Structure(market, v))

NextScorers ==
    \/ RunMomentum
    \/ RunBreakout
    \/ RunMeanReversion
    \/ RunVWAP
    \/ RunLiquidity
    \/ RunStructure

SpecScorers == InitScorers /\ [][NextScorers]_vars

\* C9 (as claimed): whenever the newest 15m candle's range exceeds 3.0 times
\* the 15m ATR(14), each of the six scorers returns flat.
C9_SpikeMeansFlat ==
    (/\ scorer # "none"
     /\ market.items_length >= 3
     /\ market.atr_15m > 0
     /\ VolatilitySpike(market)) => out.signal = "flat"

\* What holds of C9: the three scorers that carry the volatility filter
\* return flat on a spike.
C9_ScorersWithFilter ==
    (/\ scorer \in {"momentum", "breakout", "mean_reversion"}
     /\ market.items_length >= 3
     /\ market.atr_15m > 0
     /\ VolatilitySpike(market)) => out.signal = "flat"

\* C11 (as claimed): a scorer throws only when it is handed fewer than 3
\* items; with 3 items it returns a Signal, whichever of the pivots object,
\* pdh, pdl, volume and typical are absent.
C11_ThrowsOnlyOnFewItems ==
    scorer # "none" => (out.signal = "error" <=> market.items_length < 3)

\* What holds of C11: every scorer but Scorer_Breakout returns a Signal
\* whenever it is handed 3 items.
C11_OtherScorersReturn ==
    (scorer \notin {"none", "breakout"} /\ market.items_length >= 3) => out.signal # "error"

\* The pivots object has the documented shape: lower-case keys only.
DocumentedPivots(pivots) ==
    /\ Tag(pivots) = "obj"
    /\ \A k \in {"R1", "R2", "S1", "S2"} : pivots[2][k] = <<"undefined">>
    /\ \A k \in {"r1", "r2", "s1", "s2"} : Tag(pivots[2][k]) = "num"

\* C12: handed a pivots object of the documented shape (lower-case keys),
\* Scorer_Breakout returns flat on every run, whatever the candles.
C12_BreakoutAlwaysFlat ==
    (scorer = "breakout" /\ market.items_length >= 3 /\ DocumentedPivots(inp.pivots))
        => out.signal = "flat"

\* A break-and-retest entry was found and vetoed for want of a target.
C12_Witness ==
    /\ scorer = "breakout"
    /\ DocumentedPivots(inp.pivots)
    /\ CurrentHour(inp.time) = Num(7)
    /\ inp.prev_close_15m > inp.pdh
    /\ inp.last_rsi_15m > 55
    /\ out.signal = "flat"
    /\ out.reason = "VETO: no valid S/R pivot found for Take Profit."

MissingVolumeReason == "VETO: Candle data is missing volume or typical properties."

VwapRunWithoutVolume == scorer = "vwap" /\ market.items_length >= 3 /\ ~inp.volumeAndTypical

\* C13 (as claimed): on a bundle whose candles lack volume the VWAP scorer
\* always returns flat with the reason naming the missing volume/typical
\* fields.
C13_NoVolumeReason ==
    VwapRunWithoutVolume => (out.signal = "flat" /\ out.reason = MissingVolumeReason)

\* C13 (amended): on a bundle whose candles lack volume the VWAP scorer
\* always returns flat, never buy or sell; the reason names the missing
\* volume/typical fields when the bundle holds enough candles (24 of 1h and
\* of 15m, 50 of 4h, 200 daily), and is "Not enough candle data" otherwise.
C13_NoVolumeFlat ==
    VwapRunWithoutVolume =>
        /\ out.signal = "flat"
        /\ out.reason =
              (IF \/ market.len_1h < 24 \/ market.len_15m < 24
                  \/ market.len_4h < 50 \/ market.len_daily < 200
               THEN "Not enough candle data"
               ELSE MissingVolumeReason)

\* Enough candles, no volume, and VWAP values that would otherwise sell.
C13_Witness ==
    /\ VwapRunWithoutVolume
    /\ market.len_4h >= 50
    /\ inp.vwap_1h = <<"num", 11010>>
    /\ inp.vwap_15m = <<"num", 11005>>
    /\ inp.atr_1h > 0
    /\ ~inp.daily_above_200
    /\ out.reason = MissingVolumeReason

(***************************************************************************)
(* MTF_Combiner v3.1, as far as the symbol and the meta of the bundle go.  *)
(* Its input is the number of items, whether the 15m and the 1h item are   *)
(* well formed, and the symbol and pip_size their meta carry.              *)
(***************************************************************************)
UNKNOWN == <<"U", "N", "K", "N", "O", "W", "N">>

\* getData(item, tf).meta.symbol: the fallback meta of a malformed item is
\* { interval: tf }.
MetaSymbol(wellFormed, symbol) == IF wellFormed THEN symbol ELSE Undefined

\* data_15m.meta.symbol || data_1h.meta.symbol || 'UNKNOWN'
CombinerSymbol(i) ==
    LET s15 == MetaSymbol(i.wellFormed_15m, i.symbol_15m)
        s1h == MetaSymbol(i.wellFormed_1h, i.symbol_1h)
    IN  IF Truthy(s15) THEN s15[2] ELSE IF Truthy(s1h) THEN s1h[2] ELSE UNKNOWN

\* The pipSize fallback written into baseMeta.
CombinerPipSize(symbol, supplied) ==
    IF Truthy(supplied) THEN supplied
    ELSE IF Includes(symbol, JPY) THEN Num(PipDefaultJPY) ELSE Num(PipDefaultOther)

MTF_Combiner(i) ==
    IF i.items_length < 5
    THEN [thrown |-> TRUE, symbol |-> NoSymbol, meta |-> Meta(Undefined)]
    ELSE LET symbol == CombinerSymbol(i)
             supplied == IF i.wellFormed_15m THEN i.pip_size ELSE Undefined
         IN  [thrown |-> FALSE, symbol |-> symbol,
              meta |-> Meta(CombinerPipSize(symbol, supplied))]

CombinerInputs ==
    [items_length : {4, 5}, wellFormed_15m : BOOLEAN, wellFormed_1h : BOOLEAN,
     symbol_15m : {Undefined, Str(EURUSD), Str(USDJPY), Str(XAUUSD)},
     symbol_1h : {Undefined, Str(EURUSD), Str(USDJPY), Str(XAUUSD)},
     pip_size : {Undefined, Num(0), Num(1), Num(10), Num(100)}]

InitCombiner ==
    /\ allItems = <<>>
    /\ AggIdle
    /\ pc = "combiner"
    /\ focus = NoSymbol
    /\ firstRun = <<>>
    /\ cycle = 1
    /\ market \in CombinerInputs
    /\ scorer = "none"
    /\ inp = NoMarket
    /\ out = [thrown |-> FALSE, symbol |-> NoSymbol, meta |-> Meta(Undefined)]

Combine ==
    /\ pc = "combiner"
    /\ scorer = "none"
    /\ scorer' = "combiner"
    /\ out' = MTF_Combiner(market)
    /\ UNCHANGED <<market, inp, aggVars, isoVars>>

NextCombiner == Combine

SpecCombiner == InitCombiner /\ [][NextCombiner]_vars

CombinerReturned == scorer = "combiner" /\ ~out.thrown

SuppliedPipSize ==
    IF market.wellFormed_15m /\ Tag(market.pip_size) = "num" /\ market.pip_size[2] > 0
    THEN market.pip_size ELSE <<"undefined">>

HasJpyOrXau(sym) ==
    \E k \in 1..(Len(sym) - 2) :
        SubSeq(sym, k, k + 2) \in {<<"J", "P", "Y">>, <<"X", "A", "U">>}

\* C14 (as claimed): after the Combiner has run, meta.pip_size is the supplied
\* pip_size when there is one, else 0.01 for a symbol containing JPY or XAU
\* and 0.0001 for every other symbol.
C14_PipSizeFallback ==
    CombinerReturned =>
        out.meta[2].pip_size =
            (IF SuppliedPipSize # <<"undefined">> THEN SuppliedPipSize
             ELSE IF HasJpyOrXau(out.symbol) THEN <<"num", 100>> ELSE <<"num", 1>>)

\* What holds of C14: the claim for every symbol that does not contain XAU.
C14_ExceptXau ==
    (CombinerReturned /\ out.symbol # XAUUSD) =>
        out.meta[2].pip_size =
            (IF SuppliedPipSize # <<"undefined">> THEN SuppliedPipSize
             ELSE IF HasJpyOrXau(out.symbol) THEN <<"num", 100>> ELSE <<"num", 1>>)

(***************************************************************************)
(* The Confluence node run twice on the same input.  Everything the node   *)
(* works on is declared inside its code (`results` at line 22, `grouped`   *)
(* at line 31), so each execution starts from fresh locals.                *)
(***************************************************************************)

\* A `results` array that outlives the execution, as a module-level or
\* static-data array would.
NewResults_Kept(previous) == previous

\* Line 22: `const results = []`, whatever an earlier execution left.
NewResults(previous) == <<>>

\* Line 31: `const grouped = {}`.
NewGrouped(previous) == <<>>

\* The node is executed again on the input of the first execution.
RunAgain ==
    /\ pc = "done"
    /\ cycle = 1
    /\ firstRun' = [results |-> results, selected |-> selected]
    /\ grouped' = NewGrouped(grouped)
    /\ idx' = 0
    /\ results' = NewResults(results)
    /\ selected' = NewResults(selected)
    /\ pc' = "start"
    /\ cycle' = 2
    /\ UNCHANGED <<allItems, focus, scoreVars>>

\* Whether a statement of the try block throws is decided by the signals of
\* the symbol, so the two executions are followed along the passes that
\* complete.
NextRepeat == Group \/ ProcessEntry \/ RunAgain

SpecRepeat == Init /\ [][NextRepeat]_vars

MomentumTraded == scorer = "momentum" /\ out.signal \in {"buy", "sell"}

\* The 4h bias of a run that traded: a buy comes from a long bias only.
TradedBias == IF out.signal = "buy" THEN "long" ELSE "short"

\* The levels the trade runs into, and those behind it.
LevelsAhead ==
    IF out.signal = "buy" THEN ResistanceLevels(TradedBias, inp)
    ELSE SupportLevels(TradedBias, inp)

LevelsBehind ==
    IF out.signal = "buy" THEN SupportLevels(TradedBias, inp)
    ELSE ResistanceLevels(TradedBias, inp)

\* C17: in the momentum scorer, when no resistance (buy) or support (sell)
\* lies strictly beyond the price, or the reward to the nearest such level
\* less half a zone is below the stop distance, recommendedTPPips is
\* round(1.5 x recommendedSLPips); otherwise it is the rounded distance to
\* the target.
C17_TakeProfitRule ==
    MomentumTraded =>
        LET price == inp.last_price_15m
            buy == out.signal = "buy"
            beyond == {LevelsAhead[k] : k \in {j \in 1..Len(LevelsAhead) :
                          IF buy THEN LevelsAhead[j] > price ELSE LevelsAhead[j] < price}}
            nearest == IF buy THEN SeqMin(beyond) ELSE SeqMax(beyond)
            reward == IF buy THEN nearest - inp.last_atr_1h \div 8 - price
                      ELSE price - nearest - inp.last_atr_1h \div 8
            sl == out.recommendedSLPips
        IN  IF beyond = {} \/ reward < sl * MomentumPipSize(inp)
            THEN out.recommendedTPPips = RoundDiv(3 * sl, 2)
            ELSE out.recommendedTPPips = RoundDiv(reward, MomentumPipSize(inp))

\* The price is in the zone of one of the levels.
InSomeZone(levels) ==
    \E k \in 1..Len(levels) :
        InZone(inp.last_price_15m, levels[k], SrZoneAmount(inp.last_atr_1h))

\* C19: the S/R adjustment of the momentum scorer is exactly one of -0.3,
\* +0.2 and 0: the penalty, with its marker in the reason and no bonus, when
\* the price is in the zone of any level ahead of the trade (resistance for
\* a buy, support for a sell); the bonus only when no such zone holds the
\* price and the zone of a level behind the trade does.
C19_OneSrAdjustment ==
    MomentumTraded =>
        LET base == MomentumEntry(TradedBias, inp).base
            ahead == IF out.signal = "buy" THEN "Resistance" ELSE "Support"
            behind == IF out.signal = "buy" THEN "Support" ELSE "Resistance"
        IN  IF InSomeZone(LevelsAhead)
            THEN /\ out.confidence = Min(100, base - 30)
                 /\ out.reason = "entry (Penalty: At " \o ahead \o ")"
            ELSE IF InSomeZone(LevelsBehind)
            THEN /\ out.confidence = Min(100, base + 20)
                 /\ out.reason = "entry (Bonus: At " \o behind \o ")"
            ELSE /\ out.confidence = Min(100, base)
                 /\ out.reason = "entry"

\* A buy with the price in the zone of a resistance and of a support at
\* once: the penalty alone is applied.
C19_Witness ==
    /\ MomentumTraded
    /\ out.signal = "buy"
    /\ InSomeZone(LevelsAhead)
    /\ InSomeZone(LevelsBehind)
    /\ out.confidence = MomentumEntry("long", inp).base - 30

(***************************************************************************)
(* The stop and the target of Scorer_Liquidity.                            *)
(***************************************************************************)
LiquidityTraded == scorer = "liquidity" /\ out.signal \in {"buy", "sell"}

\* The gap the trade leans on and its edge away from the price.
LiquidityGapEdge ==
    IF out.signal = "buy" THEN NearestBullish(inp.bullish, inp.last_price)[1].bottom
    ELSE NearestBearish(inp.bearish, inp.last_price)[1].top

\* C18: in the liquidity scorer the emitted stop is the gap edge offset by
\* 0.25 x ATR(1h), as pips from the price, and the emitted take-profit
\* distance is exactly twice the emitted stop distance.
C18_StopBehindGapAndTwoR ==
    LiquidityTraded =>
        LET offset == inp.atr_1h_value \div 4
            slPrice == IF out.signal = "buy" THEN LiquidityGapEdge - offset
                       ELSE LiquidityGapEdge + offset
        IN  /\ out.recommendedSLPips
                   = Num(RoundDiv(Abs(inp.last_price - slPrice), LiquidityPipSize(inp)))
            /\ out.recommendedTPPips = Num(2 * out.recommendedSLPips[2])

(***************************************************************************)
(* The ranging, oversold entry of Scorer_Mean_Reversion.                   *)
(***************************************************************************)
\* The mean-reversion scorer ran on enough data with pivots, ATRs and bands
\* computed and no volatility spike.
ReversionPastFilters ==
    /\ scorer = "mean_reversion"
    /\ market.items_length >= 3
    /\ market.len_4h >= 50 /\ market.len_15m >= 50 /\ market.len_1h >= 30
    /\ inp.pivots
    /\ ~UpperFalsy(inp.bb) /\ inp.last_atr_1h # 0 /\ market.atr_15m # 0
    /\ ~VolatilitySpike(market)

\* The S/R bonus that applies.
ReversionBonus ==
    IF inp.confluence = "major" THEN 30 ELSE IF inp.confluence = "minor" THEN 15 ELSE 0

\* 4h ADX below 25, 15m StochRSI %K below 20, 15m close below the lower band.
RangingOversold ==
    /\ inp.last_adx_4h < 25
    /\ inp.last_stochRSI_k < 20
    /\ AtLowerBand(inp.last_price_15m, inp.bb)

\* C20: whenever the 4h ADX is below 25, the 15m Stochastic-RSI %K is below
\* 20 and the 15m close is below the lower Bollinger band, the
\* mean-reversion scorer emits a buy whose confidence is min(1.0, 0.70 + b),
\* b in {0, 0.15, 0.30} being the single S/R bonus that applies.
C20_RangingOversoldBuy ==
    (ReversionPastFilters /\ RangingOversold) =>
        /\ out.signal = "buy"
        /\ out.confidence = Min(100, 70 + ReversionBonus)

\* The same scenario with an ADX and a %K other than 0.
C20_NonZeroIndicators ==
    (ReversionPastFilters /\ RangingOversold
        /\ inp.last_adx_4h # 0 /\ inp.last_stochRSI_k # 0) =>
        /\ out.signal = "buy"
        /\ out.confidence = Min(100, 70 + ReversionBonus)

(***************************************************************************)
(* The six scorers over one CandleBundle and PivotSet, in any order.  The  *)
(* candle series are newest first.  Each scorer hands the series to its    *)
(* helpers, which work on copies; it reads the newest candles, the meta    *)
(* and the pivots from the bundle itself.  What the helpers compute (RSI,  *)
(* EMA, ATR, ADX, bands, VWAP) is given with the bundle.  `market` is the  *)
(* bundle as the scorers share it, `inp` the bundle as the Combiner built  *)
(* it with the helper results, `allItems` the signals returned so far.     *)
(***************************************************************************)
Candle(high, low, close, volume) ==
    [high |-> high, low |-> low, close |-> close, volume |-> volume, typical |-> volume]

Reverse(data) == [i \in 1..Len(data) |-> data[Len(data) + 1 - i]]

\* Faulty variant of ReverseCopy: data.reverse() on the array itself.
ReverseCopy_InPlace(data) == [copy |-> Reverse(data), data |-> Reverse(data)]

\* [...data].reverse(), data.slice().reverse() and data.map(...).reverse():
\* the reversed copy, and the array as it is left.
ReverseCopy(data) == [copy |-> Reverse(data), data |-> data]

RECURSIVE Insert(_, _)
Insert(x, sorted) ==
    IF sorted = <<>> THEN <<x>>
    ELSE IF x <= Head(sorted) THEN <<x>> \o sorted
    ELSE <<Head(sorted)>> \o Insert(x, Tail(sorted))

RECURSIVE SortAscending(_)
SortAscending(data) ==
    IF data = <<>> THEN <<>> ELSE Insert(Head(data), SortAscending(Tail(data)))

\* [...histATRArray].sort((a, b) => a - b): the sorted copy, and the array
\* as it is left.
SortCopy(data) == [copy |-> SortAscending(data), data |-> data]

\* Faulty variant of FindFVGs: the gap is taken against the middle candle.
FindFVGs_Middle(data) ==
    LET windows == [i \in 1..Max(0, Len(data) - 2) |-> i]
        bull(i) == data[i + 1].high < data[i].low
        bear(i) == data[i + 1].low > data[i].high
        bullish == SelectSeq(windows, bull)
        bearish == SelectSeq(windows, bear)
    IN  [bullish |-> [k \in 1..Len(bullish) |->
                         Gap(data[bullish[k]].low, data[bullish[k] + 1].high)],
         bearish |-> [k \in 1..Len(bearish) |->
                         Gap(data[bearish[k] + 1].low, data[bearish[k]].high)]]

\* findFVGs: the windows of three candles from the newest back, c3 the
\* newest candle of a window and c1 the oldest.
FindFVGs(data) ==
    LET windows == [i \in 1..Max(0, Len(data) - 2) |-> i]
        bull(i) == data[i + 2].high < data[i].low
        bear(i) == data[i + 2].low > data[i].high
        bullish == SelectSeq(windows, bull)
        bearish == SelectSeq(windows, bear)
    IN  [bullish |-> [k \in 1..Len(bullish) |->
                         Gap(data[bullish[k]].low, data[bullish[k] + 2].high)],
         bearish |-> [k \in 1..Len(bearish) |->
                         Gap(data[bearish[k] + 2].low, data[bearish[k]].high)]]

\* The series each scorer hands to a copying helper, call by call.
HelperCalls(name) ==
    CASE name = "momentum" ->
            <<"data_4h", "data_4h", "data_15m", "data_15m", "data_1h", "data_15m">>
      [] name = "breakout" ->
            <<"data_4h", "data_4h", "data_15m", "data_1h", "data_15m">>
      [] name = "mean_reversion" ->
            <<"data_4h", "data_15m", "data_15m", "data_1h", "data_15m">>
      [] name = "vwap" ->
            <<"data_daily", "data_4h", "data_1h", "data_4h", "data_1h", "data_15m">>
      [] name = "liquidity" -> <<"data_daily", "data_4h", "data_1h">>
      [] name = "structure" -> <<"data_daily", "data_4h", "data_1h">>

\* The scorers that rank the 4h ATR in hist_atr_4h.
UsesHistAtr(name) == name \in {"vwap", "liquidity", "structure"}

RECURSIVE AfterCalls(_, _)
\* The bundle once the helpers called have returned.
AfterCalls(b, calls) ==
    IF calls = <<>> THEN b
    ELSE AfterCalls([b EXCEPT ![Head(calls)] = ReverseCopy(@).data], Tail(calls))

AfterHelpers(b, name) ==
    LET b1 == AfterCalls(b, HelperCalls(name))
    IN  IF UsesHistAtr(name) THEN [b1 EXCEPT !.hist_atr_4h = SortCopy(@).data] ELSE b1

\* A number out of srData, 0 standing for a falsy one.
NumberOr0(x) == IF Truthy(x) THEN x[2] ELSE 0

\* What the six share of a bundle: the candle counts, the newest 15m range
\* and the 15m ATR.
SharedMarket(b, ind) ==
    [items_length |-> 3, len_4h |-> Len(b.data_4h), len_15m |-> Len(b.data_15m),
     len_1h |-> Len(b.data_1h), len_daily |-> Len(b.data_daily),
     current_15m_range |-> b.data_15m[1].high - b.data_15m[1].low,
     atr_15m |-> ind.atr_15m]

\* What one scorer reads of the bundle and gets from its helpers.
SharedView(name, b, ind) ==
    CASE name = "momentum" ->
            [last_price_4h |-> b.data_4h[1].close, last_ema_4h |-> ind.ema_4h,
             last_rsi_4h |-> ind.rsi_4h, last_price_15m |-> b.data_15m[1].close,
             last_ema_15m |-> ind.ema_15m, last_rsi_15m |-> ind.rsi_15m,
             last_atr_1h |-> ind.atr_1h, pip_size |-> b.meta[2].pip_size,
             pivots |-> b.pivots, pdh |-> b.pdh, pdl |-> b.pdl]
      [] name = "breakout" ->
            [last_price_4h |-> b.data_4h[1].close, last_ema_4h |-> ind.ema_4h,
             last_rsi_4h |-> ind.rsi_4h, last_rsi_15m |-> ind.rsi_15m,
             last_atr_1h |-> ind.atr_1h, prev_close_15m |-> b.data_15m[2].close,
             last_price_15m |-> b.data_15m[1].close, pdh |-> NumberOr0(b.pdh),
             pdl |-> NumberOr0(b.pdl), time |-> ind.time_15m,
             pivots |-> b.pivots]
      [] name = "mean_reversion" ->
            [last_adx_4h |-> ind.adx_4h, plusDI |-> ind.plusDI, minusDI |-> ind.minusDI,
             last_stochRSI_k |-> ind.stochRSI_k, last_price_15m |-> b.data_15m[1].close,
             bb |-> ind.bb,
             last_atr_1h |-> ind.atr_1h, pivots |-> Truthy(b.pivots),
             confluence |-> ind.confluence]
      [] name = "vwap" ->
            [volumeAndTypical |-> /\ Truthy(b.data_15m[1].volume)
                                  /\ Truthy(b.data_15m[1].typical)
                                  /\ Truthy(b.data_1h[1].volume)
                                  /\ Truthy(b.data_1h[1].typical),
             daily_above_200 |-> ind.daily_above_200, vwap_1h |-> ind.vwap_1h,
             vwap_15m |-> ind.vwap_15m, last_price |-> b.data_15m[1].close,
             atr_1h |-> ind.atr_1h]
      [] name = "liquidity" ->
            [daily_200_ema |-> ind.daily_above_200, atr_1h_value |-> ind.atr_1h,
             last_price |-> b.data_1h[1].close, symbol |-> b.symbol,
             pip_size |-> b.meta[2].pip_size,
             bullish |-> FindFVGs(b.data_1h).bullish,
             bearish |-> FindFVGs(b.data_1h).bearish]
      [] name = "structure" ->
            [pdh |-> NumberOr0(b.pdh), pdl |-> NumberOr0(b.pdl),
             daily_above_200 |-> ind.daily_above_200, atr_1h |-> ind.atr_1h,
             rsi_1h |-> ind.rsi_1h, prev_price |-> b.data_1h[2].close,
             last_price |-> b.data_1h[1].close]

ScorerNames == {"momentum", "breakout", "mean_reversion", "vwap", "liquidity", "structure"}

RunNamed(name, m, v) ==
    CASE name = "momentum" -> Scorer_Momentum(m, v)
      [] name = "breakout" -> Scorer_Breakout(m, v)
      [] name = "mean_reversion" -> Scorer_Mean_Reversion(m, v)
      [] name = "vwap" -> Scorer_VWAP(m, v)
      [] name = "liquidity" -> Scorer_Liquidity(m, v)
      [] name = "structure" -> Scorer_Structure(m, v)

\* The returns that come before any helper is called.
BeforeHelpers(o) ==
    \/ o.signal = "error"
    \/ o.reason \in {"Not enough data for EMAs/RSI",
                     "Not enough data for B&R (needs candles + PDH/PDL)",
                     "Not enough data for Mean Reversion (needs candles + pivots)",
                     "Not enough candle data",
                     "VETO: Missing PDH/PDL from srData.",
                     "VETO: Candle data is missing volume or typical properties."}

\* One scorer over the bundle: the signal it returns and the bundle as it
\* leaves it.  The newest candles are read once the helpers have returned.
ScorerOnBundle(name, b, ind) ==
    LET gate == RunNamed(name, SharedMarket(b, ind), SharedView(name, b, ind))
        b1 == AfterHelpers(b, name)
    IN  IF BeforeHelpers(gate) THEN [out |-> gate, bundle |-> b]
        ELSE [out |-> RunNamed(name, SharedMarket(b1, ind), SharedView(name, b1, ind)),
              bundle |-> b1]

\* Candle series, newest first: a newest candle closing at 1.1000 after one
\* closing at 1.0950, older candles around 1.0900, and in the 1h series a
\* bullish gap between 1.0970 and 1.0980 three candles back.
Series(len, volume) ==
    [i \in 1..len |->
        IF i = 1 THEN Candle(11010, 10990, 11000, volume)
        ELSE IF i = 2 THEN Candle(10996, 10940, 10950, volume)
        ELSE Candle(10930 + 10 * (i % 3), 10880 + 10 * (i % 3),
                    10900 + 10 * (i % 3), volume)]

Series1h(len, volume) ==
    [Series(len, volume) EXCEPT ![3] = Candle(10996, 10980, 10990, volume),
                                ![4] = Candle(10990, 10960, 10985, volume),
                                ![5] = Candle(10970, 10950, 10965, volume)]

AllPivots(p, r1, r2, r3, s1, s2, s3) ==
    Obj([p |-> p, r1 |-> r1, r2 |-> r2, r3 |-> r3, s1 |-> s1, s2 |-> s2, s3 |-> s3,
         R1 |-> Undefined, R2 |-> Undefined, S1 |-> Undefined, S2 |-> Undefined])

Bundles ==
    [symbol : {EURUSD},
     data_15m : {Series(60, Undefined), Series(60, Num(1000))},
     data_1h : {Series1h(60, Num(1000))},
     data_4h : {Series(60, Undefined)},
     data_daily : {Series(200, Undefined)},
     hist_atr_4h : {[i \in 1..20 |-> 30 + ((7 * i) % 20)]},
     meta : {Meta(Num(1))},
     pivots : {Undefined,
               AllPivots(Num(10960), Num(11060), Num(11120), Undefined,
                         Num(10995), Num(10840), Undefined)},
     pdh : {Num(10990)},
     pdl : {Num(10900)}]

HelperResults ==
    [atr_15m : {10}, atr_1h : {40}, ema_4h : {10900}, rsi_4h : {61}, ema_15m : {10950},
     rsi_15m : {58}, time_15m : {AtTime(8 * 3600)}, adx_4h : {15}, plusDI : {20}, minusDI : {10},
     stochRSI_k : {10}, bb : {BandsAround(11055, 45)},
     confluence : {"minor"}, daily_above_200 : {TRUE}, vwap_1h : {Num(10990)},
     vwap_15m : {Num(11005)}, rsi_1h : {60}]

InitShared ==
    /\ allItems = <<>>
    /\ AggIdle
    /\ pc = "shared"
    /\ focus = NoSymbol
    /\ firstRun = <<>>
    /\ cycle = 1
    /\ \E b \in Bundles, ind \in HelperResults :
        /\ market = b
        /\ inp = [bundle |-> b, ind |-> ind]
    /\ scorer = "none"
    /\ out = ScorerFlat("")

\* A scorer that has not run in this cycle runs on the bundle as it is now.
RunOnShared ==
    /\ pc = "shared"
    /\ \E name \in ScorerNames :
        /\ \A k \in 1..Len(allItems) : allItems[k].scorer # name
        /\ LET r == ScorerOnBundle(name, market, inp.ind)
           IN  /\ market' = r.bundle
               /\ out' = r.out
               /\ scorer' = name
               /\ allItems' = Append(allItems, [scorer |-> name, out |-> r.out])
    /\ UNCHANGED <<inp, grouped, idx, results, selected, pc, isoVars>>

NextShared == RunOnShared

SpecShared == InitShared /\ [][NextShared]_vars

\* C16: no scorer mutates its shared inputs: after any scorer has run, the
\* candle series (order, length and candle fields), the meta, hist_atr_4h
\* and the pivots are as the Combiner built them, and whatever ran before
\* it, each scorer has returned what it returns on the untouched bundle.
C16_SharedInputsUntouched ==
    pc = "shared" =>
        /\ market = inp.bundle
        /\ \A k \in 1..Len(allItems) :
              allItems[k].out = ScorerOnBundle(allItems[k].scorer, inp.bundle, inp.ind).out

\* All six have run, the liquidity scorer last, and at least three traded.
C16_Witness ==
    /\ pc = "shared"
    /\ Len(allItems) = 6
    /\ scorer = "liquidity"
    /\ out.signal = "buy"
    /\ Cardinality({k \in 1..6 : allItems[k].out.signal \in {"buy", "sell"}}) >= 3

(***************************************************************************)
(* findFVGs and Scorer_Liquidity on a 1h series given candle by candle.    *)
(* `market` holds the newest candles of the series, newest first; behind   *)
(* them the series goes on with candles whose range covers every price of  *)
(* the newest ones, so that no gap reaches into them.                      *)
(***************************************************************************)
MaxCandles == 4

GapPrices == {10970, 10980, 10990}

\* The candles of the newest part, a low above the high included; the close
\* is at the high.
GapCandles == {Candle(h, l, h, Undefined) : h \in GapPrices, l \in GapPrices}

RECURSIVE SeqsUpTo(_, _)
\* The sequences over S of length n at most.
SeqsUpTo(S, n) ==
    IF n = 0 THEN {<<>>}
    ELSE LET shorter == SeqsUpTo(S, n - 1)
         IN  shorter \cup {Append(q, x) : q \in {r \in shorter : Len(r) = n - 1}, x \in S}

\* The older candles of the 1h series.
OlderCandles == [i \in 1..56 |-> Candle(11100, 10900, 11000, Undefined)]

InitGaps ==
    /\ allItems = <<>>
    /\ AggIdle
    /\ pc = "gaps"
    /\ focus = NoSymbol
    /\ firstRun = <<>>
    /\ cycle = 1
    /\ market \in [recent : SeqsUpTo(GapCandles, MaxCandles)]
    /\ scorer = "none"
    /\ inp = NoMarket
    /\ out = ScorerFlat("")

GapsPending == pc = "gaps" /\ scorer = "none"

\* findFVGs on the newest candles alone.
DetectGaps ==
    /\ GapsPending
    /\ scorer' = "findFVGs"
    /\ out' = FindFVGs(market.recent)
    /\ UNCHANGED <<market, inp, aggVars, isoVars>>

\* Scorer_Liquidity on the whole series, the indicators being given.
RunLiquidityOnSeries ==
    /\ GapsPending
    /\ \E above \in BOOLEAN :
        LET data_1h == market.recent \o OlderCandles
            v == [daily_200_ema |-> above, atr_1h_value |-> 40,
                  last_price |-> data_1h[1].close, symbol |-> EURUSD,
                  pip_size |-> Num(1),
                  bullish |-> FindFVGs(data_1h).bullish,
                  bearish |-> FindFVGs(data_1h).bearish]
            m == [items_length |-> 3, len_4h |-> 60, len_15m |-> 60,
                  len_1h |-> Len(data_1h), len_daily |-> 250,
                  current_15m_range |-> 30, atr_15m |-> 10]
        IN  /\ inp' = v
            /\ out' = Scorer_Liquidity(m, v)
    /\ scorer' = "liquidity"
    /\ UNCHANGED <<market, aggVars, isoVars>>

NextGaps == DetectGaps \/ RunLiquidityOnSeries

SpecGaps == InitGaps /\ [][NextGaps]_vars

\* The windows of three candles of the series whose oldest candle is
\* wholly below (bullish) or above (bearish) the newest.
BullishWindows ==
    {i \in 1..(Len(market.recent) - 2) : market.recent[i + 2].high < market.recent[i].low}

BearishWindows ==
    {i \in 1..(Len(market.recent) - 2) : market.recent[i + 2].low > market.recent[i].high}

\* The k-th window of W, from the newest.
NthWindow(W, k) == CHOOSE i \in W : Cardinality({j \in W : j < i}) = k - 1

WellFormed(c) == c.low <= c.high

\* C22: findFVGs records, for every window of three consecutive candles
\* (oldest, middle, newest), a bullish gap {top = newest.low, bottom =
\* oldest.high} iff oldest.high < newest.low and a bearish gap {top =
\* oldest.low, bottom = newest.high} iff oldest.low > newest.high; every
\* recorded gap has bottom < top, no window of candles with low <= high
\* yields both kinds, and n candles yield at most n-2 gaps of each kind.
C22_GapsOfEveryWindow ==
    scorer = "findFVGs" =>
        LET data == market.recent
            n == Len(data)
        IN  /\ Len(out.bullish) = Cardinality(BullishWindows)
            /\ Len(out.bearish) = Cardinality(BearishWindows)
            /\ \A k \in 1..Len(out.bullish) :
                  LET i == NthWindow(BullishWindows, k)
                  IN  /\ out.bullish[k] = [top |-> data[i].low, bottom |-> data[i + 2].high]
                      /\ out.bullish[k].bottom < out.bullish[k].top
            /\ \A k \in 1..Len(out.bearish) :
                  LET i == NthWindow(BearishWindows, k)
                  IN  /\ out.bearish[k] = [top |-> data[i + 2].low, bottom |-> data[i].high]
                      /\ out.bearish[k].bottom < out.bearish[k].top
            /\ \A i \in BullishWindows \cap BearishWindows :
                  ~WellFormed(data[i]) \/ ~WellFormed(data[i + 2])
            /\ Len(out.bullish) <= Max(0, n - 2)
            /\ Len(out.bearish) <= Max(0, n - 2)

\* Four candles whose two windows give one bullish and one bearish gap.
C22_Witness ==
    /\ scorer = "findFVGs"
    /\ Len(market.recent) = 4
    /\ Len(out.bullish) = 1
    /\ Len(out.bearish) = 1
    /\ \A k \in 1..4 : WellFormed(market.recent[k])

\* The bullish gap of window i has been traded back through: a newer candle
\* has its low at or below the bottom of the gap.
BullishFilled(data, i) == \E j \in 1..(i - 1) : data[j].low <= data[i + 2].high

BearishFilled(data, i) == \E j \in 1..(i - 1) : data[j].high >= data[i + 2].low

\* C21: the gap that triggers a liquidity buy (sell) is a bullish (bearish)
\* gap no newer candle has traded back through, the nearest such gap below
\* (above) the price and within 1.0 x ATR(1h) of it.
C21_EntryOnUnfilledGap ==
    (scorer = "liquidity" /\ pc = "gaps" /\ out.signal \in {"buy", "sell"}) =>
        LET data == market.recent \o OlderCandles
            price == inp.last_price
            open == IF out.signal = "buy"
                    THEN {i \in BullishWindows :
                             ~BullishFilled(data, i) /\ data[i].low < price}
                    ELSE {i \in BearishWindows :
                             ~BearishFilled(data, i) /\ data[i].high > price}
            used == IF out.signal = "buy"
                    THEN NearestBullish(inp.bullish, price)[1]
                    ELSE NearestBearish(inp.bearish, price)[1]
        IN  \E i \in open :
              /\ IF out.signal = "buy"
                 THEN /\ used = [top |-> data[i].low, bottom |-> data[i + 2].high]
                      /\ \A j \in open : data[j].low <= data[i].low
                      /\ price - data[i].low < inp.atr_1h_value
                 ELSE /\ used = [top |-> data[i + 2].low, bottom |-> data[i].high]
                      /\ \A j \in open : data[j].high >= data[i].high
                      /\ data[i].high - price < inp.atr_1h_value

(***************************************************************************)
(* The session filter of Scorer_Breakout.                                  *)
(***************************************************************************)
\* The UTC hour of a candle whose time is in seconds since the epoch.
UtcHour(time) == (time[2] % 86400) \div 3600

SessionHours == {7, 8, 9, 10, 12, 13, 14, 15}

\* The newest 15m candle is outside both sessions.
OutsideSessions == Tag(inp.time) = "num" /\ UtcHour(inp.time) \notin SessionHours

\* C23: whenever the UTC hour of the newest 15m candle is outside 07-10 and
\* 12-15, the break-and-retest scorer's output is flat whatever the break
\* pattern, the bias and the RSI; every buy or sell it emits has its UTC
\* hour in {7, 8, 9, 10, 12, 13, 14, 15}.
C23_FlatOutsideSessions ==
    (scorer = "breakout" /\ market.items_length >= 3) =>
        /\ OutsideSessions => out.signal = "flat"
        /\ out.signal \in {"buy", "sell"} =>
              Tag(inp.time) = "num" /\ UtcHour(inp.time) \in SessionHours

\* At 16:00 UTC, past every other filter, with the 4h trend up, the previous
\* close above PDH, the price retesting it and the RSI above 55: flat.
C23_Witness ==
    /\ scorer = "breakout"
    /\ market.items_length >= 3
    /\ inp.time = AtTime(16 * 3600)
    /\ out.reason = "No B&R setup"
    /\ inp.last_price_4h > inp.last_ema_4h
    /\ inp.prev_close_15m > inp.pdh
    /\ inp.last_price_15m > inp.pdh
    /\ inp.last_price_15m < inp.pdh + SrZoneAmount(inp.last_atr_1h)
    /\ inp.last_rsi_15m > 55
    /\ Truthy(inp.pivots) /\ Truthy(inp.pivots[2].R1)

(***************************************************************************)
(* calculateRSI, in its three versions: Scorer v4.7 (momentum), Scorer     *)
(* Breakout and Scorer_Mean_Reversion.  The averages are kept as fractions *)
(* g/d and l/d over a common denominator, an RSI as the fraction num/den,  *)
(* so that no rounding enters.  The period is a parameter of the helper;   *)
(* the runs below use a short one so that a few closes reach the           *)
(* recurrence.                                                             *)
(***************************************************************************)
RsiPeriod == 2

RsiCloses == {10, 11, 12}

\* data.map(d => parseFloat(d.close)).reverse(): the closes, oldest first.
ClosesOldestFirst(data) == Reverse([i \in 1..Len(data) |-> data[i].close])

RECURSIVE SeedSum(_, _, _)
\* The loop of the first `period` changes: gains when up is TRUE, losses
\* (as positive amounts) otherwise; an unchanged close adds 0 to the losses.
SeedSum(prices, i, up) ==
    IF i = 0 THEN 0
    ELSE LET change == prices[i + 1] - prices[i]
         IN  SeedSum(prices, i - 1, up)
             + (IF up THEN (IF change > 0 THEN change ELSE 0)
                      ELSE (IF change > 0 THEN 0 ELSE -change))

RECURSIVE Averages(_, _, _)
\* avgGain = g/d and avgLoss = l/d after k steps of the recurrence.
Averages(prices, period, k) ==
    IF k = 0
    THEN [g |-> SeedSum(prices, period, TRUE), l |-> SeedSum(prices, period, FALSE),
          d |-> period]
    ELSE LET before == Averages(prices, period, k - 1)
             change == prices[period + k + 1] - prices[period + k]
             gain == IF change > 0 THEN change ELSE 0
             loss == IF change < 0 THEN -change ELSE 0
         IN  [g |-> before.g * (period - 1) + gain * before.d,
              l |-> before.l * (period - 1) + loss * before.d,
              d |-> before.d * period]

Rsi(num, den) == [kind |-> "num", num |-> num, den |-> den]

RsiNaN == [kind |-> "NaN", num |-> 0, den |-> 1]

\* 100 - (100 / (1 + (avgGain / avgLoss))) for avgLoss > 0.
RsiOfRatio(a) == Rsi(100 * a.g, a.g + a.l)

\* if (avgLoss === 0) push(100); else push(100 - (100 / (1 + avgGain/avgLoss)))
RsiGuarded(a) == IF a.l = 0 THEN Rsi(100, 1) ELSE RsiOfRatio(a)

\* rs = (avgLoss === 0) ? 100 : avgGain / avgLoss; push(100 - (100 / (1 + rs)))
RsiRs100(a) == IF a.l = 0 THEN Rsi(10000, 101) ELSE RsiOfRatio(a)

\* push(100 - (100 / (1 + (avgGain / avgLoss)))) with no test of avgLoss:
\* x/0 is Infinity for x > 0, and 0/0 is NaN.
RsiUnguarded(a) ==
    IF a.l = 0 THEN (IF a.g = 0 THEN RsiNaN ELSE Rsi(100, 1)) ELSE RsiOfRatio(a)

\* calculateRSI: `seed` and `step` are the two pushes of a version.
CalculateRSI(data, period, seed(_), step(_)) ==
    LET prices == ClosesOldestFirst(data)
        steps == Len(prices) - period - 1
        values == [k \in 1..(steps + 1) |->
                      IF k = 1 THEN seed(Averages(prices, period, 0))
                      ELSE step(Averages(prices, period, k - 1))]
    IN  IF Len(data) < period + 1 THEN [rsi |-> Rsi(50, 1), values |-> <<>>]
        ELSE [rsi |-> values[Len(values)], values |-> values]

\* part_000, lines 20-51.
CalculateRSI_Momentum(data, period) == CalculateRSI(data, period, RsiGuarded, RsiGuarded)

\* 08_Scorer_Breakout.js, lines 15-46.
CalculateRSI_Breakout(data, period) == CalculateRSI(data, period, RsiUnguarded, RsiRs100)

\* part_001, lines 33-54.
CalculateRSI_Reversion(data, period) == CalculateRSI(data, period, RsiRs100, RsiRs100)

InitRsi ==
    /\ allItems = <<>>
    /\ AggIdle
    /\ pc = "rsi"
    /\ focus = NoSymbol
    /\ firstRun = <<>>
    /\ cycle = 1
    /\ market \in [data : SeqsUpTo({[close |-> c] : c \in RsiCloses}, MaxCandles + 1)]
    /\ scorer = "none"
    /\ inp = NoMarket
    /\ out = [rsi |-> Rsi(50, 1), values |-> <<>>]

RunRsi(name, result) ==
    /\ pc = "rsi"
    /\ scorer = "none"
    /\ scorer' = name
    /\ out' = result
    /\ UNCHANGED <<market, inp, aggVars, isoVars>>

RsiOfMomentum == RunRsi("momentum", CalculateRSI_Momentum(market.data, RsiPeriod))

RsiOfBreakout == RunRsi("breakout", CalculateRSI_Breakout(market.data, RsiPeriod))

RsiOfReversion == RunRsi("mean_reversion", CalculateRSI_Reversion(market.data, RsiPeriod))

\* Scorer v4.7 on a 4h series whose RSI the helper computes to a whole
\* number (or returns as its default of 50, the series being too short for
\* the period), the other indicators being given and not 0.
RunMomentumOnCloses ==
    /\ pc = "rsi"
    /\ scorer = "none"
    /\ market.data # <<>>
    /\ LET rsi_4h == CalculateRSI_Momentum(market.data, RsiPeriod).rsi
           v == [last_price_4h |-> market.data[1].close, last_ema_4h |-> 11,
                 last_rsi_4h |-> rsi_4h.num \div rsi_4h.den,
                 last_price_15m |-> 11000, last_ema_15m |-> 10950, last_rsi_15m |-> 58,
                 last_atr_1h |-> 40, pip_size |-> Num(1),
                 pivots |-> Undefined, pdh |-> Undefined, pdl |-> Undefined]
           m == [items_length |-> 3, len_4h |-> 60, len_15m |-> 60, len_1h |-> 60,
                 len_daily |-> 250, current_15m_range |-> 30, atr_15m |-> 10]
       IN  /\ rsi_4h.num % rsi_4h.den = 0
           /\ inp' = v
           /\ out' = Scorer_Momentum(m, v)
    /\ scorer' = "scorer_v47"
    /\ UNCHANGED <<market, aggVars, isoVars>>

NextRsi == RsiOfMomentum \/ RsiOfBreakout \/ RsiOfReversion \/ RunMomentumOnCloses

SpecRsi == InitRsi /\ [][NextRsi]_vars

\* The value is a number between 0 and 100.
RsiInRange(v) == v.kind = "num" /\ v.den > 0 /\ 0 <= v.num /\ v.num <= 100 * v.den

\* The value is exactly 100.
RsiIs100(v) == v.kind = "num" /\ v.num = 100 * v.den

\* Every value of the run is in range, and is 100 where the average loss
\* of its step is 0.
RsiRunAsClaimed ==
    \A k \in 1..Len(out.values) :
        /\ RsiInRange(out.values[k])
        /\ Averages(ClosesOldestFirst(market.data), RsiPeriod, k - 1).l = 0
              => RsiIs100(out.values[k])

\* C24: in every RSI implementation of the scorers, whenever the smoothed
\* average loss is 0, at the seed step or at a later step of the
\* recurrence, the RSI value is exactly 100, and every RSI value produced
\* is a number in [0, 100].
C24_ZeroLossMeans100 ==
    (pc = "rsi" /\ scorer \in {"momentum", "breakout", "mean_reversion"}) => RsiRunAsClaimed

\* The same for the version of Scorer v4.7 alone.
C24_MomentumVersion == (pc = "rsi" /\ scorer = "momentum") => RsiRunAsClaimed

(***************************************************************************)
(* Arrival order at the Aggregator.                                        *)
(***************************************************************************)
ArrivalOrders(n) == {p \in [1..n -> 1..n] : \A i, j \in 1..n : p[i] = p[j] => i = j}

Permuted(arr, p) == [i \in 1..Len(arr) |-> arr[p[i]]]

\* The direction, regime and reason of a record.
DecisionOf(rec) == <<rec.signal, rec.regime, rec.reason>>

\* The record of pass k is the one every arrival order of its signals gives.
SameInEveryOrder(k) ==
    LET arr == Projection(allItems, results[k].symbol)
    IN  \A p \in ArrivalOrders(Len(arr)) :
            DecisionOf(ProcessSymbol(results[k].symbol, Permuted(arr, p)).rec)
                = DecisionOf(results[k])

\* C25: the Aggregator's decision for a symbol does not depend on the order
\* in which the scorers' signals arrive: for any list of signals and any
\* permutation of it, the emitted direction, regime and reason are the same.
C25_ArrivalOrderIrrelevant ==
    \A k \in 1..Len(results) : ~selected[k].fault => SameInEveryOrder(k)

\* The same where every signal of the symbol carries a complete snapshot
\* and all carry the same one.
C25_WithOneSnapshot ==
    \A k \in 1..Len(results) :
        LET arr == Projection(allItems, results[k].symbol)
        IN  (/\ ~selected[k].fault
             /\ \A i \in 1..Len(arr) : Complete(arr[i]) /\ arr[i].indicators = arr[1].indicators)
               => SameInEveryOrder(k)

(***************************************************************************)
(* The scorers' signal types against the Aggregator's two lists.           *)
(***************************************************************************)
\* The regime in which a signal of this direction is with the trend.
TrendAlong(signal) == IF signal = "buy" THEN "Up" ELSE "Down"

\* C26: every buy or sell signal that any of the six scorers can emit
\* carries a signalType that the Aggregator classifies as technical
\* (momentum, reversion, breakout) or dynamic (vwap_bias, liquidity,
\* market_structure), so that a with-trend signal arriving alone is
\* approved rather than dropped to flat.
C26_EmittedTypesClassified ==
    (pc = "scorers" /\ out.signal \in {"buy", "sell"}) =>
        /\ TypeIn(out, TECHNICAL_SCORERS \cup DYNAMIC_SCORERS)
        /\ Confluence(<<out>>, TrendAlong(out.signal)).filteredArr = <<out>>

\* The same for the four scorers other than Scorer v4.7 and Scorer Breakout.
C26_OtherScorers ==
    (pc = "scorers" /\ out.signal \in {"buy", "sell"} /\ scorer \notin {"momentum", "breakout"}) =>
        /\ TypeIn(out, TECHNICAL_SCORERS \cup DYNAMIC_SCORERS)
        /\ Confluence(<<out>>, TrendAlong(out.signal)).filteredArr = <<out>>

(***************************************************************************)
(* The regime of a boolean daily flag.                                     *)
(***************************************************************************)
\* The signals of pass k, and the index of the one whose snapshot is read.
SignalsOf(k) == Projection(allItems, results[k].symbol)

SnapshotIndex(k) == FirstValidIndex(SignalsOf(k))

\* Pass k went past the data check with a boolean daily flag.
PastGateWithBoolean(k) ==
    /\ ~selected[k].fault
    /\ SnapshotIndex(k) # 0
    /\ LET ind == SignalsOf(k)[SnapshotIndex(k)].indicators[2]
       IN  ~MissingRegimeData(ind) /\ Tag(ind.daily_price_above_ema_200) = "bool"

\* The signals with another atr_4h_norm in the snapshot that is read.
WithAtrNorm(arr, i, a) ==
    [arr EXCEPT ![i].indicators = Obj([arr[i].indicators[2] EXCEPT !.atr_4h_norm = a])]

\* A record without the snapshot it copies from the best signal.
Verdict(rec) == [rec EXCEPT !.indicators = Undefined]

\* C27: past the Aggregator's validity gate the regime is never Neutral
\* when daily_price_above_ema_200 is a boolean: it is Up for true and Down
\* for false, so the Volatile CHOP veto is not given and an atr_4h_norm
\* above or below the threshold leaves the decision as it is.
C27_BooleanFlagNeverNeutral ==
    \A k \in 1..Len(results) :
        PastGateWithBoolean(k) =>
            LET arr == SignalsOf(k)
                i == SnapshotIndex(k)
                daily == arr[i].indicators[2].daily_price_above_ema_200
            IN  /\ results[k].regime = Str(IF daily = Bool(TRUE) THEN "Up" ELSE "Down")
                /\ results[k].reason # "Regime: Veto. Volatile CHOP."
                /\ \A a \in {Num(50), Num(regimeVolatilityThreshold), Num(90)} :
                      Verdict(ProcessSymbol(results[k].symbol, WithAtrNorm(arr, i, a)).rec)
                          = Verdict(results[k])

\* A trade and a flat were decided in regime Down under an atr_4h_norm
\* above the threshold.
C27_Witness ==
    /\ pc = "done"
    /\ \E k \in 1..Len(results) :
          /\ PastGateWithBoolean(k)
          /\ results[k].regime = Str("Down")
          /\ SignalsOf(k)[SnapshotIndex(k)].indicators[2].atr_4h_norm = Num(80)
          /\ IsTrade(results[k])

(***************************************************************************)
(* The confidence of Scorer v4.7.                                          *)
(***************************************************************************)
\* The 4h bias of the run, for any run that got past the HTF filter.
BiasOf(v) ==
    IF v.last_price_4h > v.last_ema_4h /\ v.last_rsi_4h > 52 THEN "long" ELSE "short"

\* baseConfidence as step 5 leaves it, and what filter 2 adds to it.
BaseConfidence == MomentumEntry(BiasOf(inp), inp).base

SrAmount ==
    SrAdjust(MomentumEntry(BiasOf(inp), inp).signal, inp.last_price_15m,
             SrZoneAmount(inp.last_atr_1h),
             SupportLevels(BiasOf(inp), inp), ResistanceLevels(BiasOf(inp), inp)).amount

\* C28: in the momentum scorer every emitted buy or sell has a confidence
\* in [0.2, 1.0]: the confidence before the S/R adjustment is between 0.5
\* and 0.9 and the adjustment is at least -0.3, so the confidence-floor
\* veto (confidence < 0.1) never fires.
C28_ConfidenceFloorNeverFires ==
    (pc = "scorers" /\ scorer = "momentum") =>
        /\ out.reason # "VETO: S/R context makes confidence too low"
        /\ MomentumTraded =>
              /\ 20 <= out.confidence /\ out.confidence <= 100
              /\ 50 <= BaseConfidence /\ BaseConfidence <= 90
              /\ SrAmount >= -30
              /\ out.confidence = Min(100, BaseConfidence + SrAmount)

\* A trade at the lowest confidence: a base of 0.5 and the penalty.
C28_Witness ==
    /\ pc = "scorers"
    /\ MomentumTraded
    /\ BaseConfidence = 50
    /\ SrAmount = -30
    /\ out.confidence = 20

\* A trade whose confidence is capped: a base of 0.9 and the bonus.
C28_CappedTrade ==
    /\ pc = "scorers"
    /\ MomentumTraded
    /\ BaseConfidence = 90
    /\ SrAmount = 20
    /\ out.confidence = 100

(***************************************************************************)
(* calculateBollingerBands of Scorer_Mean_Reversion on a 15m series, and   *)
(* the take-profit the scorer sets on the middle band.                     *)
(***************************************************************************)
BB_PERIOD == 20

BB_STD_DEV == 2

RECURSIVE SumOffsets(_, _, _)
\* window.reduce((a, b) => a + b, 0) over the n newest closes, each taken
\* as its offset from `base`.
SumOffsets(data, n, base) ==
    IF n = 0 THEN 0 ELSE SumOffsets(data, n - 1, base) + (data[n].close - base)

RECURSIVE SumSquares(_, _, _)
\* The same for the squares of the offsets.
SumSquares(data, n, base) ==
    IF n = 0 THEN 0
    ELSE SumSquares(data, n - 1, base) + (data[n].close - base) * (data[n].close - base)

\* The last window is the period newest closes.  With s the sum of the
\* closes and q the sum of their squares, the SMA is s/period and the
\* variance (period * q - s^2) / period^2; the sums of squares are taken on
\* the offsets from the newest close, which leaves the variance as it is.
CalculateBollingerBands(data, period, stdDev) ==
    IF Len(data) < period THEN NoBands
    ELSE LET base == data[1].close
             s == SumOffsets(data, period, base)
             q == SumSquares(data, period, base)
         IN  Bands(period * base + s, period, stdDev * stdDev * (period * q - s * s))

BandCloses == {10900, 11000, 11100}

InitBands ==
    /\ allItems = <<>>
    /\ AggIdle
    /\ pc = "bands"
    /\ focus = NoSymbol
    /\ firstRun = <<>>
    /\ cycle = 1
    /\ market \in [recent : SeqsUpTo({Candle(c, c, c, Undefined) : c \in BandCloses}, MaxCandles)]
    /\ scorer = "none"
    /\ inp = NoMarket
    /\ out = ScorerFlat("")

\* Scorer_Mean_Reversion on the whole 15m series, the bands computed from
\* it and the other indicators given.
RunReversionOnSeries ==
    /\ pc = "bands"
    /\ scorer = "none"
    /\ \E k \in {10, 50, 90}, adx \in {15, 30} :
        LET data_15m == market.recent \o OlderCandles
            v == [last_adx_4h |-> adx, plusDI |-> 20, minusDI |-> 10,
                  last_stochRSI_k |-> k, last_price_15m |-> data_15m[1].close,
                  bb |-> CalculateBollingerBands(data_15m, BB_PERIOD, BB_STD_DEV),
                  last_atr_1h |-> 40, pivots |-> TRUE, confluence |-> "none"]
            m == [items_length |-> 3, len_4h |-> 60, len_15m |-> Len(data_15m),
                  len_1h |-> 60, len_daily |-> 250,
                  current_15m_range |-> data_15m[1].high - data_15m[1].low, atr_15m |-> 10]
        IN  /\ inp' = v
            /\ out' = Scorer_Mean_Reversion(m, v)
    /\ scorer' = "mean_reversion"
    /\ UNCHANGED <<market, aggVars, isoVars>>

NextBands == RunReversionOnSeries

SpecBands == InitBands /\ [][NextBands]_vars

\* The scorer's output is a trade in this direction.
ReversionTrade(signal) == scorer = "mean_reversion" /\ out.signal = signal

\* recommendedTPPrice against the entry price, data_15m[0].close.
TargetAbove == out.recommendedTPPrice[1] > inp.last_price_15m * out.recommendedTPPrice[2]

TargetBelow == out.recommendedTPPrice[1] < inp.last_price_15m * out.recommendedTPPrice[2]

\* C29: a mean-reversion buy's take-profit price, the middle Bollinger
\* band, is strictly above the entry price, and a sell's take-profit price
\* is strictly below it.
C29_TargetOnFarSide ==
    /\ ReversionTrade("buy") => TargetAbove
    /\ ReversionTrade("sell") => TargetBelow

\* A buy below the lower band of a computed window, its target above.
C29_Witness ==
    /\ pc = "bands"
    /\ ReversionTrade("buy")
    /\ inp.bb.dev2 > 0
    /\ TargetAbove

\* A sell above the upper band of a computed window.
C29_SellReached == pc = "bands" /\ ReversionTrade("sell") /\ TargetBelow

(***************************************************************************)
(* The indicator validity check.                                           *)
(***************************************************************************)
\* calculateRSI had too few closes for its period and returned its default.
RsiUnavailable == Len(market.data) < RsiPeriod + 1

IndicatorFailure == out.reason = "Indicator calculation failed, not enough data."

\* C30: past its minimum-data gate a scorer returns the 'Indicator
\* calculation failed' flat only when an indicator is actually unavailable;
\* a validly computed indicator equal to exactly 0 is treated as a value
\* and evaluation goes on to the next gate.
C30_FailureOnlyWhenUnavailable ==
    (pc = "rsi" /\ scorer = "scorer_v47") => (IndicatorFailure => RsiUnavailable)

\* What holds instead: the flat is returned exactly when the RSI is 0.
C30_FailureOnZero ==
    (pc = "rsi" /\ scorer = "scorer_v47") => (IndicatorFailure <=> inp.last_rsi_4h = 0)

=============================================================================
